---- MODULE Spec2Model ----
(***************************************************************************)
(* Model of the langchain-nextjs-chat route handlers (plain chat,          *)
(* structured output, retrieval, tool-using agent) and of the ChatWindow   *)
(* client that displays their responses.                                   *)
(*                                                                         *)
(* Text is a sequence of one-character strings, so that slicing, joining   *)
(* and encoding are computed and not assumed.                              *)
(***************************************************************************)
EXTENDS Integers, Sequences, FiniteSets, TLC

\* ------------------------------------------------------------------ bounds
MaxRuns == 2          \* submissions of one full-trace conversation
MaxTurns == 3         \* messages of a conversation posted to chat / retrieval
MaxMsgs == 2          \* longest message list of a request body
MaxIters == 2         \* model steps of one agent run that may request tools
MaxChunks == 2        \* provider chunks of one streamed answer
MaxExchanges == 2     \* exchanges of one client conversation
MaxDocs == 2          \* documents one retrieval returns
MaxRows == 2          \* rows of the documents table
MaxLimit == 2         \* largest match_count of a call
MaxNorm == 5          \* longest stored or query vector

\* ---------------------------------------------------------------- constants
DefaultStatus == 500  \* `e.status ?? 500`
OkStatus == 200       \* `{ status: 200 }` / default status of a Response

Undefined == -1       \* a status the failure does not carry

\* ------------------------------------------------------------------- values
\* "E" stands for a character outside ASCII (two bytes in UTF-8)
Contents == {<<"a">>, <<"E">>}

\* a message of the request body: { role, content }
RequestMessage ==
  {[role |-> "user", content |-> <<"a">>], [role |-> "user", content |-> <<"E">>],
   [role |-> "assistant", content |-> <<"a">>], [role |-> "system", content |-> <<"E">>]}

RECURSIVE SeqsUpTo(_, _)
SeqsUpTo(S, n) ==
  IF n = 0 THEN {<<>>}
  ELSE LET shorter == SeqsUpTo(S, n - 1)
       IN shorter \cup {Append(s, x) : s \in {t \in shorter : Len(t) = n - 1}, x \in S}

MessageLists == SeqsUpTo(RequestMessage, MaxMsgs)

\* the JSON bodies a caller can post: unparsable, without `messages`,
\* or with a (possibly empty) list; show_intermediate_steps is
\* "true", "false" or "absent"
Bodies ==
  {[valid |-> FALSE, hasMessages |-> FALSE, messages |-> <<>>, show |-> "absent"]}
  \cup [valid : {TRUE}, hasMessages : {FALSE}, messages : {<<>>},
        show : {"absent", "true", "false"}]
  \cup [valid : {TRUE}, hasMessages : {TRUE}, messages : MessageLists,
        show : {"absent", "true", "false"}]

\* the bodies of longer conversations posted to the chat and retrieval routes
ConversationBodies ==
  [valid : {TRUE}, hasMessages : {TRUE}, messages : SeqsUpTo(RequestMessage, MaxTurns),
   show : {"absent"}]

\* the bodies posted to the agents route for a streamed answer
StreamingBodies ==
  [valid : {TRUE}, hasMessages : {TRUE}, messages : MessageLists, show : {"absent", "false"}]

\* failures: { message, status? }
SyntaxError == [message |-> "SyntaxError", status |-> Undefined]
TypeError == [message |-> "TypeError", status |-> Undefined]
ProviderStatuses == {Undefined, 429}
ProviderErrors == [message : {"ProviderError"}, status : ProviderStatuses]
NoError == [message |-> "", status |-> Undefined]

\* ------------------------------------------------------------ pure helpers
SliceWhole(s) == s

\* Array.prototype.slice(0, -1)
SliceButLast(s) == IF Len(s) = 0 THEN <<>> ELSE SubSeq(s, 1, Len(s) - 1)

\* `body.messages ?? []`
MessagesOrEmpty(b) == IF b.hasMessages THEN b.messages ELSE <<>>

\* Number.prototype.toString() for a natural number
Digit(d) == CASE d = 0 -> "0" [] d = 1 -> "1" [] d = 2 -> "2" [] d = 3 -> "3"
              [] d = 4 -> "4" [] d = 5 -> "5" [] d = 6 -> "6" [] d = 7 -> "7"
              [] d = 8 -> "8" [] d = 9 -> "9"
RECURSIVE NumberToString(_)
NumberToString(n) ==
  IF n < 10 THEN <<Digit(n)>> ELSE NumberToString(n \div 10) \o <<Digit(n % 10)>>

\* TextEncoder.encode of one character (UTF-8)
Utf8(c) == CASE c = "a" -> <<97>>
                          [] c = "E" -> <<195, 169>>
RECURSIVE TextEncode(_)
TextEncode(t) == IF t = <<>> THEN <<>> ELSE Utf8(Head(t)) \o TextEncode(Tail(t))

\* retrieved documents: { pageContent, metadata }
PreviewLength == 50
\* a chunk longer than the preview: it starts with a quote and a backslash,
\* its last previewed character is "E", and one more character follows
LongContent ==
  [i \in 1..(PreviewLength + 1) |->
     IF i = 1 THEN "\"" ELSE IF i = 2 THEN "\\" ELSE IF i = PreviewLength THEN "E" ELSE "a"]

Documents == {[pageContent |-> <<"a">>, metadata |-> 1],
              [pageContent |-> LongContent, metadata |-> 2]}
DocumentLists == SeqsUpTo(Documents, MaxDocs)

SlicePreviewWhole(t) == t

\* String.prototype.slice(0, PreviewLength)
SlicePreview(t) == IF Len(t) <= PreviewLength THEN t ELSE SubSeq(t, 1, PreviewLength)

\* documents.map((doc) => ({ pageContent: doc.pageContent.slice(0, 50) + "...", metadata }))
SourcePreviews(docs) ==
  [i \in 1..Len(docs) |->
     [pageContent |-> SlicePreview(docs[i].pageContent) \o <<".", ".", ".">>,
      metadata |-> docs[i].metadata]]

\* ------------------------------------------------- x-sources header coding
\* the characters of the model's texts and of the JSON they are written in,
\* with their code points (all below 128 except "E", which is U+00E9)
AsciiTable ==
  ("\"" :> 34) @@ ("," :> 44) @@ ("." :> 46) @@ ("0" :> 48)
  @@ ("1" :> 49) @@ ("2" :> 50) @@ ("3" :> 51) @@ ("4" :> 52)
  @@ ("5" :> 53) @@ ("6" :> 54) @@ ("7" :> 55) @@ ("8" :> 56)
  @@ ("9" :> 57) @@ (":" :> 58) @@ ("C" :> 67) @@ ("[" :> 91)
  @@ ("\\" :> 92) @@ ("]" :> 93) @@ ("a" :> 97) @@ ("d" :> 100)
  @@ ("e" :> 101) @@ ("g" :> 103) @@ ("m" :> 109) @@ ("n" :> 110)
  @@ ("o" :> 111) @@ ("p" :> 112) @@ ("t" :> 116) @@ ("{" :> 123)
  @@ ("}" :> 125)

NonAsciiCode == 233

CharCode(c) == IF c = "E" THEN NonAsciiCode ELSE AsciiTable[c]

CharOfCode(n) ==
  IF n = NonAsciiCode THEN "E" ELSE CHOOSE c \in DOMAIN AsciiTable : AsciiTable[c] = n

\* a place of a sequence that holds no byte / no character and is dropped
IsByte(b) == b # Undefined
IsChar(c) == c # ""

\* Buffer.from(text) (UTF-8): one byte below U+0080, two bytes below U+0800
Utf8Bytes(t) ==
  SelectSeq([j \in 1..(2 * Len(t)) |->
               LET n == CharCode(t[(j + 1) \div 2])
               IN IF j % 2 = 1
                    THEN (IF n < 128 THEN n ELSE 192 + (n \div 64))
                  ELSE (IF n < 128 THEN Undefined ELSE 128 + (n % 64))],
            IsByte)

\* buffer.toString("utf8"): a byte below 128 is a character, a byte from 192
\* on starts a character that the next byte (128..191) completes
Utf8Text(bytes) ==
  SelectSeq([i \in 1..Len(bytes) |->
               IF bytes[i] < 128 THEN CharOfCode(bytes[i])
               ELSE IF bytes[i] >= 192
                 THEN CharOfCode((bytes[i] - 192) * 64 + (bytes[i + 1] - 128))
               ELSE ""],
            IsChar)

Base64Alphabet ==
  <<
    "A", "B", "C", "D", "E", "F", "G", "H", "I", "J", "K", "L", "M",
    "N", "O", "P", "Q", "R", "S", "T", "U", "V", "W", "X", "Y", "Z",
    "a", "b", "c", "d", "e", "f", "g", "h", "i", "j", "k", "l", "m",
    "n", "o", "p", "q", "r", "s", "t", "u", "v", "w", "x", "y", "z",
    "0", "1", "2", "3", "4", "5", "6", "7", "8", "9", "+", "/">>

Base64Char(v) == Base64Alphabet[v + 1]
Base64Value(c) == (CHOOSE i \in DOMAIN Base64Alphabet : Base64Alphabet[i] = c) - 1

\* buffer.toString("base64"): three bytes become four characters, the last
\* group is padded with "=" (a missing byte counts as 0 in the character
\* that still holds bits of the byte before it)
Base64Encode(bytes) ==
  [j \in 1..(4 * ((Len(bytes) + 2) \div 3)) |->
     LET g == (j + 3) \div 4
         k == j - 4 * (g - 1)
         has2 == 3 * g - 1 <= Len(bytes)
         has3 == 3 * g <= Len(bytes)
         b1 == bytes[3 * g - 2]
         b2 == IF has2 THEN bytes[3 * g - 1] ELSE 0
         b3 == IF has3 THEN bytes[3 * g] ELSE 0
     IN CASE k = 1 -> Base64Char(b1 \div 4)
          [] k = 2 -> Base64Char((b1 % 4) * 16 + b2 \div 16)
          [] k = 3 -> IF has2 THEN Base64Char((b2 % 16) * 4 + b3 \div 64) ELSE "="
          [] OTHER -> IF has3 THEN Base64Char(b3 % 64) ELSE "="]

\* Buffer.from(text, "base64"): four characters become three bytes, fewer
\* for a padded group
Base64Bytes(chars) ==
  LET v1 == Base64Value(chars[1])
      v2 == Base64Value(chars[2])
  IN IF chars[3] = "=" THEN <<v1 * 4 + v2 \div 16>>
     ELSE LET v3 == Base64Value(chars[3])
          IN IF chars[4] = "="
               THEN <<v1 * 4 + v2 \div 16, (v2 % 16) * 16 + v3 \div 4>>
             ELSE <<v1 * 4 + v2 \div 16, (v2 % 16) * 16 + v3 \div 4,
                    (v3 % 4) * 64 + Base64Value(chars[4])>>

\* the bytes of a group, an absent byte where the group is padded
Base64Decode(chars) ==
  SelectSeq([j \in 1..(3 * (Len(chars) \div 4)) |->
               LET g == (j + 2) \div 3
                   group == Base64Bytes(SubSeq(chars, 4 * g - 3, 4 * g))
                   k == j - 3 * (g - 1)
               IN IF k <= Len(group) THEN group[k] ELSE Undefined],
            IsByte)

\* JSON.stringify of the characters of a string: a quote and a backslash are
\* written with a backslash before them
JsonEscape(t) ==
  SelectSeq([j \in 1..(2 * Len(t)) |->
               LET c == t[(j + 1) \div 2]
               IN IF j % 2 = 0 THEN c
                  ELSE IF c = "\"" \/ c = "\\" THEN "\\" ELSE ""],
            IsChar)

JsonString(t) == <<"\"">> \o JsonEscape(t) \o <<"\"">>

KeyPageContent == <<"p", "a", "g", "e", "C", "o", "n", "t", "e", "n", "t">>
KeyMetadata == <<"m", "e", "t", "a", "d", "a", "t", "a">>

\* JSON.stringify({ pageContent, metadata })
JsonObject(source) ==
  <<"{">> \o JsonString(KeyPageContent) \o <<":">> \o JsonString(source.pageContent)
  \o <<",">> \o JsonString(KeyMetadata) \o <<":">> \o NumberToString(source.metadata)
  \o <<"}">>

RECURSIVE JsonElements(_)
JsonElements(sources) ==
  IF sources = <<>> THEN <<>>
  ELSE IF Len(sources) = 1 THEN JsonObject(sources[1])
  ELSE JsonObject(sources[1]) \o <<",">> \o JsonElements(Tail(sources))

\* JSON.stringify of the array of sources
JsonStringify(sources) == <<"[">> \o JsonElements(sources) \o <<"]">>

\* JSON.parse, reading the text from place i on: a string
RECURSIVE ScanString(_, _, _)
ScanString(s, i, acc) ==
  IF s[i] = "\"" THEN [value |-> acc, next |-> i + 1]
  ELSE IF s[i] = "\\" THEN ScanString(s, i + 2, Append(acc, s[i + 1]))
  ELSE ScanString(s, i + 1, Append(acc, s[i]))

ParseString(s, i) == ScanString(s, i + 1, <<>>)

IsDigit(c) == c \in {"0", "1", "2", "3", "4", "5", "6", "7", "8", "9"}

\* a number
RECURSIVE ScanNumber(_, _, _)
ScanNumber(s, i, acc) ==
  IF i <= Len(s) /\ IsDigit(s[i])
    THEN ScanNumber(s, i + 1, acc * 10 + (CharCode(s[i]) - CharCode("0")))
  ELSE [value |-> acc, next |-> i]

\* an object of two members, a string and a number
ParseObject(s, i) ==
  LET key1 == ParseString(s, i + 1)
      value1 == ParseString(s, key1.next + 1)
      key2 == ParseString(s, value1.next + 1)
      value2 == ScanNumber(s, key2.next + 1, 0)
  IN [value |-> [pageContent |-> IF key1.value = KeyPageContent THEN value1.value ELSE <<>>,
                 metadata |-> IF key2.value = KeyMetadata THEN value2.value ELSE 0],
      next |-> value2.next + 1]

\* the elements of an array
RECURSIVE ParseElements(_, _, _)
ParseElements(s, i, acc) ==
  LET element == ParseObject(s, i)
  IN IF s[element.next] = ","
       THEN ParseElements(s, element.next + 1, Append(acc, element.value))
     ELSE Append(acc, element.value)

JsonParse(s) == IF s[2] = "]" THEN <<>> ELSE ParseElements(s, 2, <<>>)

\* Buffer.from(JSON.stringify(documents.map(...))).toString("base64")
\* (each conversion is applied to the value the one before it produced)
serializedSources(docs) ==
  CHOOSE header \in
    {Base64Encode(bytes) :
       bytes \in {Utf8Bytes(text) :
                    text \in {JsonStringify(sources) :
                                sources \in {SourcePreviews(docs)}}}} : TRUE

\* sourcesHeader ? JSON.parse(Buffer.from(sourcesHeader, "base64").toString("utf8")) : []
DecodeSources(sourcesHeader) ==
  IF sourcesHeader = <<>> THEN <<>>
  ELSE CHOOSE sources \in
         {JsonParse(text) :
            text \in {Utf8Text(bytes) :
                         bytes \in {Base64Decode(sourcesHeader)}}} : TRUE

\* ---------------------------------------------------------------- responses
NoResponse ==
  [kind |-> "none", status |-> Undefined, error |-> "",
   xMessageIndex |-> <<>>, xSources |-> <<>>, messages |-> <<>>]

\* catch (e) { return NextResponse.json({ error: e.message }, { status: e.status ?? 500 }) }
CatchResponseAlwaysDefault(e) ==
  [kind |-> "json_error", status |-> DefaultStatus, error |-> e.message,
   xMessageIndex |-> <<>>, xSources |-> <<>>, messages |-> <<>>]
CatchResponse(e) ==
  [kind |-> "json_error",
   status |-> IF e.status # Undefined THEN e.status ELSE DefaultStatus,
   error |-> e.message,
   xMessageIndex |-> <<>>, xSources |-> <<>>, messages |-> <<>>]

\* "x-message-index": (previousMessages.length + 1).toString()
MessageIndexHeaderHistoryOnly(previous) == NumberToString(Len(previous))
MessageIndexHeader(previous) == NumberToString(Len(previous) + 1)

\* new StreamingTextResponse(stream, { headers }) of the retrieval route
RetrievalResponse(previous, docs) ==
  [kind |-> "stream", status |-> OkStatus, error |-> "",
   xMessageIndex |-> MessageIndexHeader(previous),
   xSources |-> serializedSources(docs), messages |-> <<>>]

\* new Response(stream) / new StreamingTextResponse(stream) without headers
StreamResponse ==
  [kind |-> "stream", status |-> OkStatus, error |-> "",
   xMessageIndex |-> <<>>, xSources |-> <<>>, messages |-> <<>>]

\* NextResponse.json(payload, { status: 200 })
JsonResponse(msgs) ==
  [kind |-> "json", status |-> OkStatus, error |-> "",
   xMessageIndex |-> <<>>, xSources |-> <<>>, messages |-> msgs]

\* ------------------------------------------------------------ prompt inputs
\* Array.prototype.join(separator) on texts
RECURSIVE Join(_, _)
Join(texts, separator) ==
  IF texts = <<>> THEN <<>>
  ELSE IF Len(texts) = 1 THEN texts[1]
  ELSE texts[1] \o separator \o Join(Tail(texts), separator)

\* docs.map((doc) => doc.pageContent).join("\n\n")
combineDocumentsFn(docs) ==
  Join([i \in 1..Len(docs) |-> docs[i].pageContent], <<"\n", "\n">>)

\* the characters of a role name
RoleText(role) ==
  CASE role = "user" -> <<"u", "s", "e", "r">>
    [] role = "assistant" -> <<"a", "s", "s", "i", "s", "t", "a", "n", "t">>
    [] role = "system" -> <<"s", "y", "s", "t", "e", "m">>
    [] OTHER -> <<"t", "o", "o", "l">>

\* `Human: ${content}` / `Assistant: ${content}` / `${role}: ${content}`,
\* joined with "\n"
formatVercelMessages(chatHistory) ==
  Join([i \in 1..Len(chatHistory) |->
          (IF chatHistory[i].role = "user"
             THEN <<"H", "u", "m", "a", "n">>
           ELSE IF chatHistory[i].role = "assistant"
             THEN <<"A", "s", "s", "i", "s", "t", "a", "n", "t">>
           ELSE RoleText(chatHistory[i].role))
          \o <<":", " ">> \o chatHistory[i].content],
       <<"\n">>)

\* the steps of conversationalRetrievalQAChain in the order the sequences
\* compose them: standaloneQuestionChain, then inside answerChain the
\* retrievalChain feeding answerPrompt and the model
conversationalRetrievalQAChain == <<"condense", "retrieve", "answer">>

\* the step a RunnableSequence runs after the given one; after the last the
\* handler goes on to build the response
StepAfterSkippingRetrieval(step) ==
  IF step = "condense" THEN "answer" ELSE "package"
StepAfter(step) ==
  LET chain == conversationalRetrievalQAChain
      at == CHOOSE i \in 1..Len(chain) : chain[i] = step
  IN IF at < Len(chain) THEN chain[at + 1] ELSE "package"

\* (input) => input.question, the first step of the context branch
RetrieverInputTruncated(input) == SubSeq(input.question, 1, Len(input.question) - 1)
RetrieverInput(input) == input.question

\* formatMessage of the chat route: `${message.role}: ${message.content}`
formatMessage(message) == RoleText(message.role) \o <<":", " ">> \o message.content

\* chat: chain.stream({ chat_history: formattedPreviousMessages.join("\n"),
\* input: currentMessageContent })
NoChainInput == [filled |-> FALSE]
ChatChainInput(previous, content) ==
  [filled |-> TRUE,
   chat_history |-> Join([i \in 1..Len(previous) |-> formatMessage(previous[i])], <<"\n">>),
   input |-> content]

\* retrieval: conversationalRetrievalQAChain.stream({ question:
\* currentMessageContent, chat_history: formatVercelMessages(previousMessages) })
RetrievalChainInput(previous, content) ==
  [filled |-> TRUE, chat_history |-> formatVercelMessages(previous), question |-> content]

\* what the condenser step hands to answerChain
AnswerChainInput(question, previous) ==
  [question |-> question, chat_history |-> formatVercelMessages(previous)]

\* { context, chat_history, question } handed to answerPrompt
NoAnswerInput == [filled |-> FALSE, context |-> <<>>, chat_history |-> <<>>, question |-> <<>>]
AnswerPromptInput(input, docs) ==
  [filled |-> TRUE, context |-> combineDocumentsFn(docs),
   chat_history |-> input.chat_history, question |-> input.question]

\* -------------------------------------------------------------------- state
VARIABLES
  endpoint,               \* route the request was posted to
  body,                   \* the posted JSON body
  pc,                     \* position of the handler
  thrown,                 \* the failure raised inside the handler, if any
  response,               \* what the handler returned
  modelCalls,             \* calls made to a model / embedding / vector provider
  previousMessages,       \* messages.slice(0, -1)
  currentMessageContent,  \* messages[messages.length - 1].content
  standaloneQuestion,     \* output of the question condenser
  retrieverQuery,         \* the query the retriever was called with
  documents,              \* what handleRetrieverEnd resolved documentPromise with
  documentPromise,        \* "pending" or "resolved"
  chainInput,             \* what chain.stream() was called with
  answerInput,            \* what answerPrompt was filled with
  agentInput,             \* the messages handed to the agent
  agentMessages,          \* the message list of the agent graph
  node,                   \* node of the agent graph that runs next
  iters,                  \* tool rounds of the agent run
  events,                 \* events / chunks produced so far, in arrival order
  providerDone,           \* the provider (or the agent run) produces no more events
  consumed,               \* events the stream handler has taken from the source
  respChunks,             \* chunks written to the response body, in order
  streamState             \* "none", "open", "closed" or "errored"

VARIABLES
  chatMessages,           \* chat.messages of useChat: what the window displays
  sourcesForMessages,     \* state of ChatWindow: message index (text) -> sources
  isLoading,              \* chat.isLoading
  cpc,                    \* position of the client: "idle", "awaiting", "streaming"
  requestMessages,        \* the messages of the request in flight
  delivered               \* per response received: the sources it came with and
                          \* the place its answer took in chatMessages (0: none)

clientVars ==
  <<chatMessages, sourcesForMessages, isLoading, cpc, requestMessages, delivered>>

\* the database the setup scripts create, and one call of match_documents
VARIABLES
  dbSetup,                \* which setup script was run: "none" before
  documentsTable,         \* rows of the documents table, in insertion order
  matchCall,              \* the arguments of the call of match_documents
  matchResult             \* what the call returned: rows, or an error

dbVars == <<dbSetup, documentsTable, matchCall, matchResult>>

\* retrieval requests served at the same time: the locals of each invocation
\* of POST, and the promises the invocations created
VARIABLES
  requests,               \* request id -> locals of that invocation
  promises                \* promise id -> [state, value]

concVars == <<requests, promises>>

\* the chat window in full-trace mode: the loading flag of ChatWindow, the
\* locals of each invocation of sendMessage, and the run whose request the
\* agents route is serving (0: none)
VARIABLES
  intermediateStepsLoading,
  runs,
  serving

traceVars == <<intermediateStepsLoading, runs, serving>>

serverVars ==
  <<endpoint, body, pc, thrown, response, modelCalls, previousMessages,
    currentMessageContent, standaloneQuestion, retrieverQuery, documents,
    documentPromise, chainInput, answerInput, agentInput, agentMessages, node, iters,
    events, providerDone, consumed, respChunks, streamState>>

Endpoints == {"chat", "structured_output", "retrieval", "agents"}

ServerInit ==
  /\ endpoint = "none"
  /\ body = [valid |-> FALSE, hasMessages |-> FALSE, messages |-> <<>>, show |-> "absent"]
  /\ pc = "idle"
  /\ thrown = NoError
  /\ response = NoResponse
  /\ modelCalls = 0
  /\ previousMessages = <<>>
  /\ currentMessageContent = <<>>
  /\ standaloneQuestion = <<>>
  /\ retrieverQuery = <<>>
  /\ documents = <<>>
  /\ documentPromise = "pending"
  /\ chainInput = NoChainInput
  /\ answerInput = NoAnswerInput
  /\ agentInput = <<>>
  /\ agentMessages = <<>>
  /\ node = "none"
  /\ iters = 0
  /\ events = <<>>
  /\ providerDone = FALSE
  /\ consumed = 0
  /\ respChunks = <<>>
  /\ streamState = "none"

\* a request arrives at one of the routes
Receive ==
  /\ UNCHANGED <<clientVars, dbVars, concVars, traceVars>>
  /\ pc = "idle"
  /\ \E ep \in Endpoints, b \in Bodies :
       /\ ep # "agents" => b.show = "absent"
       /\ endpoint' = ep
       /\ body' = b
  /\ pc' = "parse"
  /\ UNCHANGED <<chainInput, answerInput, thrown, response, modelCalls, previousMessages,
                 currentMessageContent, standaloneQuestion, retrieverQuery,
                 documents, documentPromise, agentInput, agentMessages, node,
                 iters, events, providerDone, consumed, respChunks, streamState>>

\* a conversation arrives at the chat or the retrieval route
ReceiveConversation ==
  /\ UNCHANGED <<clientVars, dbVars, concVars, traceVars>>
  /\ pc = "idle"
  /\ \E ep \in {"chat", "retrieval"}, b \in ConversationBodies :
       /\ endpoint' = ep
       /\ body' = b
  /\ pc' = "parse"
  /\ UNCHANGED <<chainInput, answerInput, thrown, response, modelCalls, previousMessages,
                 currentMessageContent, standaloneQuestion, retrieverQuery,
                 documents, documentPromise, agentInput, agentMessages, node,
                 iters, events, providerDone, consumed, respChunks, streamState>>

\* a request for a streamed answer arrives at the agents route
ReceiveStreaming ==
  /\ UNCHANGED <<clientVars, dbVars, concVars, traceVars>>
  /\ pc = "idle"
  /\ \E b \in StreamingBodies :
       /\ endpoint' = "agents"
       /\ body' = b
  /\ pc' = "parse"
  /\ UNCHANGED <<chainInput, answerInput, thrown, response, modelCalls, previousMessages,
                 currentMessageContent, standaloneQuestion, retrieverQuery,
                 documents, documentPromise, agentInput, agentMessages, node,
                 iters, events, providerDone, consumed, respChunks, streamState>>

\* a failure inside the try block reaches the catch clause of the handler
Throw(e) ==
  /\ thrown' = e
  /\ response' = CatchResponse(e)
  /\ pc' = "done"

\* messages[messages.length - 1]: undefined for an empty list, and reading
\* .content of undefined raises a TypeError
LatestMessageLenient(messages) ==
  IF Len(messages) = 0 THEN [defined |-> TRUE, content |-> <<>>]
  ELSE [defined |-> TRUE, content |-> messages[Len(messages)].content]
LatestMessage(messages) ==
  IF Len(messages) = 0 THEN [defined |-> FALSE, content |-> <<>>]
  ELSE [defined |-> TRUE, content |-> messages[Len(messages)].content]

\* const body = await req.json(); const messages = body.messages ?? [];
\* ... messages.slice(0, -1) ...; messages[messages.length - 1].content
ParseLatest ==
  /\ UNCHANGED <<clientVars, dbVars, concVars, traceVars>>
  /\ pc = "parse"
  /\ endpoint \in {"chat", "structured_output", "retrieval"}
  /\ IF ~body.valid
       THEN /\ Throw(SyntaxError)
            /\ UNCHANGED <<previousMessages, currentMessageContent>>
       ELSE LET messages == MessagesOrEmpty(body)
                latest == LatestMessage(messages)
            IN /\ previousMessages' =
                    IF endpoint = "structured_output" THEN previousMessages
                    ELSE SliceButLast(messages)
               /\ IF ~latest.defined
                    THEN /\ Throw(TypeError)
                         /\ UNCHANGED currentMessageContent
                    ELSE /\ currentMessageContent' = latest.content
                         /\ pc' = IF endpoint = "retrieval" THEN "condense" ELSE "model"
                         /\ UNCHANGED <<thrown, response>>
  /\ UNCHANGED <<chainInput, answerInput, endpoint, body, modelCalls, standaloneQuestion, retrieverQuery,
                 documents, documentPromise, agentInput, agentMessages, node,
                 iters, events, providerDone, consumed, respChunks, streamState>>

\* one chunk of a streamed model answer
ChunkEvent(c) == [event |-> "on_chat_model_stream", content |-> c]
ChunkContents == {<<>>, <<"a">>, <<"E">>}

\* structured_output: const result = await chain.invoke({ input }); return
\* NextResponse.json(result, { status: 200 })
StructuredInvoke ==
  /\ UNCHANGED <<clientVars, dbVars, concVars, traceVars>>
  /\ pc = "model"
  /\ endpoint = "structured_output"
  /\ modelCalls' = modelCalls + 1
  /\ \/ \E e \in ProviderErrors : Throw(e)
     \/ /\ response' = JsonResponse(<<>>)
        /\ pc' = "done"
        /\ UNCHANGED thrown
  /\ UNCHANGED <<chainInput, answerInput, endpoint, body, previousMessages, currentMessageContent,
                 standaloneQuestion, retrieverQuery, documents, documentPromise,
                 agentInput, agentMessages, node, iters, events, providerDone,
                 consumed, respChunks, streamState>>

\* chat: const stream = await chain.stream({ chat_history, input });
\* return new Response(stream, ...). The awaited stream() settles once the
\* model has produced its first chunk, has ended, or has failed.
ChatStream ==
  /\ UNCHANGED <<clientVars, dbVars, concVars, traceVars>>
  /\ pc = "model"
  /\ endpoint = "chat"
  /\ chainInput' = ChatChainInput(previousMessages, currentMessageContent)
  /\ modelCalls' = modelCalls + 1
  /\ \/ /\ \E e \in ProviderErrors : Throw(e)
        /\ UNCHANGED <<events, providerDone, streamState>>
     \/ /\ \/ \E c \in ChunkContents :
                /\ events' = <<ChunkEvent(c)>>
                /\ providerDone' = FALSE
           \/ /\ events' = <<>>
              /\ providerDone' = TRUE
        /\ response' = StreamResponse
        /\ streamState' = "open"
        /\ pc' = "streaming"
        /\ UNCHANGED thrown
  /\ UNCHANGED <<answerInput, endpoint, body, previousMessages, currentMessageContent,
                 standaloneQuestion, retrieverQuery, documents, documentPromise,
                 agentInput, agentMessages, node, iters, consumed, respChunks>>

\* retrieval step 1: standaloneQuestionChain (prompt -> model -> string)
RetrievalCondense ==
  /\ UNCHANGED <<clientVars, dbVars, concVars, traceVars>>
  /\ pc = "condense"
  /\ chainInput' = RetrievalChainInput(previousMessages, currentMessageContent)
  /\ modelCalls' = modelCalls + 1
  /\ \/ /\ \E e \in ProviderErrors : Throw(e)
        /\ UNCHANGED standaloneQuestion
     \/ /\ \E q \in Contents \cup {currentMessageContent} : standaloneQuestion' = q
        /\ pc' = StepAfter("condense")
        /\ UNCHANGED <<thrown, response>>
  /\ UNCHANGED <<answerInput, endpoint, body, previousMessages, currentMessageContent,
                 retrieverQuery, documents, documentPromise, agentInput,
                 agentMessages, node, iters, events, providerDone, consumed,
                 respChunks, streamState>>

\* handleRetrieverEnd(documents) { resolveWithDocuments(documents) }
PromiseAfterRetrieverEndPending == "pending"
PromiseAfterRetrieverEnd == "resolved"

\* retrieval step 2: (input) => input.question, retriever; on success
\* handleRetrieverEnd(documents) resolves documentPromise
RetrievalRetrieve ==
  /\ UNCHANGED <<clientVars, dbVars, concVars, traceVars>>
  /\ pc = "retrieve"
  /\ retrieverQuery' = RetrieverInput(AnswerChainInput(standaloneQuestion, previousMessages))
  /\ modelCalls' = modelCalls + 1
  /\ \/ /\ \E e \in ProviderErrors : Throw(e)
        /\ UNCHANGED <<documents, documentPromise>>
     \/ /\ \E docs \in DocumentLists : documents' = docs
        /\ documentPromise' = PromiseAfterRetrieverEnd
        /\ pc' = StepAfter("retrieve")
        /\ UNCHANGED <<thrown, response>>
  /\ UNCHANGED <<chainInput, answerInput, endpoint, body, previousMessages, currentMessageContent,
                 standaloneQuestion, agentInput, agentMessages, node, iters,
                 events, providerDone, consumed, respChunks, streamState>>

\* retrieval step 3: answerPrompt -> model -> BytesOutputParser; the awaited
\* stream() settles with the first chunk of the answer, its end or its failure
RetrievalAnswer ==
  /\ UNCHANGED <<clientVars, dbVars, concVars, traceVars>>
  /\ pc = "answer"
  /\ modelCalls' = modelCalls + 1
  /\ answerInput' =
       AnswerPromptInput(AnswerChainInput(standaloneQuestion, previousMessages), documents)
  /\ \/ /\ \E e \in ProviderErrors : Throw(e)
        /\ UNCHANGED <<events, providerDone>>
     \/ /\ \/ \E c \in ChunkContents :
                /\ events' = <<ChunkEvent(c)>>
                /\ providerDone' = FALSE
           \/ /\ events' = <<>>
              /\ providerDone' = TRUE
        /\ pc' = StepAfter("answer")
        /\ UNCHANGED <<thrown, response>>
  /\ UNCHANGED <<chainInput, endpoint, body, previousMessages, currentMessageContent,
                 standaloneQuestion, retrieverQuery, documents, documentPromise,
                 agentInput, agentMessages, node, iters, consumed, respChunks,
                 streamState>>

\* const documents = await documentPromise; ... return new
\* StreamingTextResponse(stream, { headers: { x-message-index, x-sources } })
RetrievalPackage ==
  /\ UNCHANGED <<clientVars, dbVars, concVars, traceVars>>
  /\ pc = "package"
  /\ documentPromise = "resolved"
  /\ response' = RetrievalResponse(previousMessages, documents)
  /\ streamState' = "open"
  /\ pc' = "streaming"
  /\ UNCHANGED <<chainInput, answerInput, endpoint, body, thrown, modelCalls, previousMessages,
                 currentMessageContent, standaloneQuestion, retrieverQuery,
                 documents, documentPromise, agentInput, agentMessages, node,
                 iters, events, providerDone, consumed, respChunks>>

\* ------------------------------------------------- streaming of chain output
\* the model provider produces the next chunk of the answer
ProviderChunk ==
  /\ UNCHANGED <<clientVars, dbVars, concVars, traceVars>>
  /\ pc = "streaming"
  /\ endpoint \in {"chat", "retrieval"}
  /\ streamState = "open"
  /\ ~providerDone
  /\ Len(events) < MaxChunks
  /\ \E c \in ChunkContents : events' = Append(events, ChunkEvent(c))
  /\ UNCHANGED <<chainInput, answerInput, endpoint, body, pc, thrown, response, modelCalls,
                 previousMessages, currentMessageContent, standaloneQuestion,
                 retrieverQuery, documents, documentPromise, agentInput,
                 agentMessages, node, iters, providerDone, consumed, respChunks,
                 streamState>>

\* the model provider ends the answer
ProviderEnd ==
  /\ UNCHANGED <<clientVars, dbVars, concVars, traceVars>>
  /\ pc = "streaming"
  /\ endpoint \in {"chat", "retrieval"}
  /\ streamState = "open"
  /\ ~providerDone
  /\ providerDone' = TRUE
  /\ UNCHANGED <<chainInput, answerInput, endpoint, body, pc, thrown, response, modelCalls,
                 previousMessages, currentMessageContent, standaloneQuestion,
                 retrieverQuery, documents, documentPromise, agentInput,
                 agentMessages, node, iters, events, consumed, respChunks,
                 streamState>>

\* controller.enqueue(chunk): the chunk becomes the last chunk of the body
EnqueueFront(chunks, chunk) == <<chunk>> \o chunks
Enqueue(chunks, chunk) == Append(chunks, chunk)

\* the last step of the chain: the plain chat route pipes the model through
\* StringOutputParser, whose chunks are the strings themselves, the retrieval
\* route through BytesOutputParser, whose chunks are their UTF-8 bytes
OutputParser(route, content) ==
  IF route = "chat" THEN content ELSE TextEncode(content)

\* the output parser turns the next chunk of the model into a chunk of the
\* chain's stream, which is the body handed to the response as it is
PipeChunk ==
  /\ UNCHANGED <<clientVars, dbVars, concVars, traceVars>>
  /\ pc = "streaming"
  /\ endpoint \in {"chat", "retrieval"}
  /\ streamState = "open"
  /\ consumed < Len(events)
  /\ consumed' = consumed + 1
  /\ respChunks' = Enqueue(respChunks, OutputParser(endpoint, events[consumed + 1].content))
  /\ UNCHANGED <<chainInput, answerInput, endpoint, body, pc, thrown, response, modelCalls,
                 previousMessages, currentMessageContent, standaloneQuestion,
                 retrieverQuery, documents, documentPromise, agentInput,
                 agentMessages, node, iters, events, providerDone, streamState>>

\* the chain's stream ends after its last chunk was carried on
PipeClose ==
  /\ UNCHANGED <<clientVars, dbVars, concVars, traceVars>>
  /\ pc = "streaming"
  /\ endpoint \in {"chat", "retrieval"}
  /\ streamState = "open"
  /\ providerDone
  /\ consumed = Len(events)
  /\ streamState' = "closed"
  /\ pc' = "done"
  /\ UNCHANGED <<chainInput, answerInput, endpoint, body, thrown, response, modelCalls,
                 previousMessages, currentMessageContent, standaloneQuestion,
                 retrieverQuery, documents, documentPromise, agentInput,
                 agentMessages, node, iters, events, providerDone, consumed,
                 respChunks>>

\* a source that throws makes the response stream errored: the pipe through
\* the output parser propagates the error, and a rejected start() of
\* transformStream errors its controller; controller.close() is not reached
StreamStateOnFailure == "errored"

\* the provider fails in mid-stream: the error follows the chunks already
\* produced and aborts the response stream. The chain's stream produces a
\* chunk only when the caller asks for one (pull), so no chunk is waiting in
\* its queue when the failure arrives
PipeFail ==
  /\ UNCHANGED <<clientVars, dbVars, concVars, traceVars>>
  /\ pc = "streaming"
  /\ endpoint \in {"chat", "retrieval"}
  /\ streamState = "open"
  /\ ~providerDone
  /\ consumed = Len(events)
  /\ streamState' = StreamStateOnFailure
  /\ pc' = "done"
  /\ UNCHANGED <<chainInput, answerInput, endpoint, body, thrown, response, modelCalls, previousMessages,
                 currentMessageContent, standaloneQuestion, retrieverQuery,
                 documents, documentPromise, agentInput, agentMessages, node,
                 iters, events, providerDone, consumed, respChunks>>

\* ------------------------------------------------------------ agent messages
\* LangChain messages: HumanMessage, AIMessage (with tool_calls), ToolMessage,
\* ChatMessage (generic, with a role)
HumanMessage(c) ==
  [type |-> "human", content |-> c, tool_calls |-> <<>>, tool_call_id |-> 0, role |-> ""]
AIMessage(c, calls) ==
  [type |-> "ai", content |-> c, tool_calls |-> calls, tool_call_id |-> 0, role |-> ""]
ToolMessage(c, id) ==
  [type |-> "tool", content |-> c, tool_calls |-> <<>>, tool_call_id |-> id, role |-> ""]
ChatMessage(c, r) ==
  [type |-> "generic", content |-> c, tool_calls |-> <<>>, tool_call_id |-> 0, role |-> r]

convertVercelMessageToLangChainMessage(message) ==
  IF message.role = "user" THEN HumanMessage(message.content)
  ELSE IF message.role = "assistant" THEN AIMessage(message.content, <<>>)
  ELSE ChatMessage(message.content, message.role)

convertLangChainMessageToVercelMessage(message) ==
  IF message.type = "human"
    THEN [content |-> message.content, role |-> "user", tool_calls |-> <<>>]
  ELSE IF message.type = "ai"
    THEN [content |-> message.content, role |-> "assistant",
          tool_calls |-> message.tool_calls]
  ELSE [content |-> message.content, role |-> message.type, tool_calls |-> <<>>]

IsAnyRole(message) == TRUE

\* (message) => message.role === "user" || message.role === "assistant"
IsChatTurn(message) == message.role = "user" \/ message.role = "assistant"

\* (body.messages ?? []).filter(...).map(convertVercelMessageToLangChainMessage)
AgentInputOf(b) ==
  LET kept == SelectSeq(MessagesOrEmpty(b), IsChatTurn)
  IN  [i \in 1..Len(kept) |-> convertVercelMessageToLangChainMessage(kept[i])]

\* result.messages.map(convertLangChainMessageToVercelMessage)
ResultMessages(messages) ==
  [i \in 1..Len(messages) |-> convertLangChainMessageToVercelMessage(messages[i])]

\* const returnIntermediateSteps = body.show_intermediate_steps (truthiness)
ReturnIntermediateStepsIfPresent(b) == b.show # "absent"
ReturnIntermediateSteps(b) == b.show = "true"

\* agents: parse the body, build the message list and the agent, then branch
\* on show_intermediate_steps
AgentsParse ==
  /\ UNCHANGED <<clientVars, dbVars, concVars, traceVars>>
  /\ pc = "parse"
  /\ endpoint = "agents"
  /\ IF ~body.valid
       THEN /\ Throw(SyntaxError)
            /\ UNCHANGED <<agentInput, agentMessages, node>>
       ELSE /\ agentInput' = AgentInputOf(body)
            /\ agentMessages' = AgentInputOf(body)
            /\ node' = "__start__"
            /\ pc' = IF ReturnIntermediateSteps(body) THEN "invoke" ELSE "stream_events"
            /\ UNCHANGED <<thrown, response>>
  /\ UNCHANGED <<chainInput, answerInput, endpoint, body, modelCalls, previousMessages,
                 currentMessageContent, standaloneQuestion, retrieverQuery,
                 documents, documentPromise, iters, events, providerDone,
                 consumed, respChunks, streamState>>

\* --------------------------------------------------------------- agent graph
\* .addEdge("__start__", "agent")
EntryNode == "agent"

\* full-trace mode: const result = await agent.invoke({ messages })
AgentInvoke ==
  /\ UNCHANGED <<clientVars, dbVars, concVars, traceVars>>
  /\ pc = "invoke"
  /\ node' = EntryNode
  /\ pc' = "invoking"
  /\ UNCHANGED <<chainInput, answerInput, endpoint, body, thrown, response, modelCalls, previousMessages,
                 currentMessageContent, standaloneQuestion, retrieverQuery,
                 documents, documentPromise, agentInput, agentMessages, iters,
                 events, providerDone, consumed, respChunks, streamState>>

\* streaming mode: const eventStream = await agent.streamEvents(...);
\* return new StreamingTextResponse(transformStream)
AgentStreamEvents ==
  /\ UNCHANGED <<clientVars, dbVars, concVars, traceVars>>
  /\ pc = "stream_events"
  /\ node' = EntryNode
  /\ response' = StreamResponse
  /\ streamState' = "open"
  /\ pc' = "streaming"
  /\ UNCHANGED <<chainInput, answerInput, endpoint, body, thrown, modelCalls, previousMessages,
                 currentMessageContent, standaloneQuestion, retrieverQuery,
                 documents, documentPromise, agentInput, agentMessages, iters,
                 events, providerDone, consumed, respChunks>>

\* the routing function of the conditional edge out of the model node: the
\* tool node when the last model output requests tool calls, the end otherwise
shouldContinue(lastMessage) ==
  IF Len(lastMessage.tool_calls) > 0 THEN "tools" ELSE "__end__"

\* .addConditionalEdges("agent", shouldContinue)
AfterAgent(lastMessage) == shouldContinue(lastMessage)

\* .addEdge("tools", "agent")
AfterToolsToEnd == "__end__"
AfterTools == "agent"

\* what the chat model can answer: some text (possibly none) and some tool calls
OutputContents == {<<>>, <<"a", "E">>}
ToolCallCounts == {0, 1, 2}
ModelOutputs == [content : OutputContents, ntools : ToolCallCounts]

\* the answers explored for the model's next step: any output while the run
\* has made fewer than MaxIters tool rounds, and after that only an output
\* without tool calls. The bound is on the answers of the model; the graph
\* has none and goes on for as long as the model asks for tools
ExploredOutputs(rounds) ==
  {out \in ModelOutputs : rounds < MaxIters \/ out.ntools = 0}

\* what a tool returns for a call
Observation == <<"E">>

RECURSIVE CountCalls(_)
CountCalls(msgs) ==
  IF msgs = <<>> THEN 0 ELSE Len(Head(msgs).tool_calls) + CountCalls(Tail(msgs))

\* the events streamEvents yields for one model step: one delta per tool
\* call (no content), one delta per piece of text, and the end of the step
ModelEvents(out) ==
  [i \in 1..out.ntools |-> ChunkEvent(<<>>)]
  \o [i \in 1..Len(out.content) |-> ChunkEvent(<<out.content[i]>>)]
  \o <<[event |-> "on_chat_model_end", content |-> out.content]>>

\* the events streamEvents yields for the tool step of the given calls
RECURSIVE ToolEvents(_)
ToolEvents(calls) ==
  IF calls = <<>> THEN <<>>
  ELSE <<[event |-> "on_tool_end", content |-> Observation]>> \o ToolEvents(Tail(calls))

LastMessage(msgs) == msgs[Len(msgs)]

\* the model node: one call of the chat model on the message list; its
\* output is appended and the conditional edge chooses the next node
AgentModelStep ==
  /\ UNCHANGED <<clientVars, dbVars, concVars, traceVars>>
  /\ pc \in {"invoking", "streaming"}
  /\ endpoint = "agents"
  /\ node = "agent"
  /\ modelCalls' = modelCalls + 1
  /\ \/ /\ node' = "failed"
        /\ IF pc = "invoking"
             THEN \E e \in ProviderErrors : Throw(e)
             ELSE UNCHANGED <<thrown, response, pc>>
        /\ UNCHANGED <<agentMessages, events, providerDone>>
     \/ \E out \in ExploredOutputs(iters) :
          LET first == CountCalls(agentMessages)
              message == AIMessage(out.content, [i \in 1..out.ntools |-> first + i])
          IN /\ agentMessages' = Append(agentMessages, message)
             /\ node' = AfterAgent(message)
             /\ events' = IF pc = "streaming" THEN events \o ModelEvents(out) ELSE events
             /\ providerDone' = (AfterAgent(message) = "__end__")
             /\ UNCHANGED <<thrown, response, pc>>
  /\ UNCHANGED <<chainInput, answerInput, endpoint, body, previousMessages, currentMessageContent,
                 standaloneQuestion, retrieverQuery, documents, documentPromise,
                 agentInput, iters, consumed, respChunks, streamState>>

\* the tool node: every requested call is executed and its observation is
\* appended as a tool message; then back to the model node
AgentToolStep ==
  /\ UNCHANGED <<clientVars, dbVars, concVars, traceVars>>
  /\ pc \in {"invoking", "streaming"}
  /\ endpoint = "agents"
  /\ node = "tools"
  /\ LET calls == LastMessage(agentMessages).tool_calls
     IN /\ agentMessages' =
             agentMessages \o [i \in 1..Len(calls) |-> ToolMessage(Observation, calls[i])]
        /\ events' = IF pc = "streaming" THEN events \o ToolEvents(calls) ELSE events
  /\ node' = AfterTools
  /\ iters' = iters + 1
  /\ UNCHANGED <<chainInput, answerInput, endpoint, body, pc, thrown, response, modelCalls,
                 previousMessages, currentMessageContent, standaloneQuestion,
                 retrieverQuery, documents, documentPromise, agentInput,
                 providerDone, consumed, respChunks, streamState>>

\* return NextResponse.json({ messages: result.messages.map(...) }, { status: 200 })
AgentInvokeReturn ==
  /\ UNCHANGED <<clientVars, dbVars, concVars, traceVars>>
  /\ pc = "invoking"
  /\ node = "__end__"
  /\ response' = JsonResponse(ResultMessages(agentMessages))
  /\ pc' = "done"
  /\ UNCHANGED <<chainInput, answerInput, endpoint, body, thrown, modelCalls, previousMessages,
                 currentMessageContent, standaloneQuestion, retrieverQuery,
                 documents, documentPromise, agentInput, agentMessages, node,
                 iters, events, providerDone, consumed, respChunks, streamState>>

\* if (event === "on_chat_model_stream") { if (!!data.chunk.content) { enqueue } }
ForwardedAnyDelta(ev) == ev.event = "on_chat_model_stream"
Forwarded(ev) == ev.event = "on_chat_model_stream" /\ ev.content # <<>>

\* one turn of `for await (const { event, data } of eventStream)`
TransformEvent ==
  /\ UNCHANGED <<clientVars, dbVars, concVars, traceVars>>
  /\ pc = "streaming"
  /\ endpoint = "agents"
  /\ streamState = "open"
  /\ consumed < Len(events)
  /\ consumed' = consumed + 1
  /\ LET ev == events[consumed + 1]
     IN respChunks' = IF Forwarded(ev) THEN Enqueue(respChunks, TextEncode(ev.content))
                      ELSE respChunks
  /\ UNCHANGED <<chainInput, answerInput, endpoint, body, pc, thrown, response, modelCalls,
                 previousMessages, currentMessageContent, standaloneQuestion,
                 retrieverQuery, documents, documentPromise, agentInput,
                 agentMessages, node, iters, events, providerDone, streamState>>

\* controller.close() after the loop over the event stream
StreamStateOnEndOpen == "open"
StreamStateOnEnd == "closed"

\* the event stream has ended: controller.close()
TransformClose ==
  /\ UNCHANGED <<clientVars, dbVars, concVars, traceVars>>
  /\ pc = "streaming"
  /\ endpoint = "agents"
  /\ streamState = "open"
  /\ providerDone
  /\ consumed = Len(events)
  /\ streamState' = StreamStateOnEnd
  /\ pc' = "done"
  /\ UNCHANGED <<chainInput, answerInput, endpoint, body, thrown, response, modelCalls, previousMessages,
                 currentMessageContent, standaloneQuestion, retrieverQuery,
                 documents, documentPromise, agentInput, agentMessages, node,
                 iters, events, providerDone, consumed, respChunks>>

\* the event stream throws (the run failed): start() rejects and the
\* response stream becomes errored. start() enqueues whenever an event
\* arrives, whether or not the caller has read, and an errored stream resets
\* its queue: the caller keeps the chunks it had read before the failure,
\* `read` of them, and the chunks still queued are dropped
TransformFail ==
  /\ UNCHANGED <<clientVars, dbVars, concVars, traceVars>>
  /\ pc = "streaming"
  /\ endpoint = "agents"
  /\ streamState = "open"
  /\ node = "failed"
  /\ consumed = Len(events)
  /\ streamState' = StreamStateOnFailure
  /\ \E read \in 0..Len(respChunks) : respChunks' = SubSeq(respChunks, 1, read)
  /\ pc' = "done"
  /\ UNCHANGED <<chainInput, answerInput, endpoint, body, thrown, response, modelCalls, previousMessages,
                 currentMessageContent, standaloneQuestion, retrieverQuery,
                 documents, documentPromise, agentInput, agentMessages, node,
                 iters, events, providerDone, consumed>>

\* -------------------------------------------------------------------- client
ClientInit ==
  /\ chatMessages = <<>>
  /\ sourcesForMessages = <<>>
  /\ isLoading = FALSE
  /\ cpc = "idle"
  /\ requestMessages = <<>>
  /\ delivered = <<>>

SetSourcesOnly(map, key, sources) == <<[key |-> key, sources |-> sources]>>

\* sourcesForMessages is kept as a sequence of { key, sources } entries, the
\* latest entry of a key being its value: { ...sourcesForMessages, [key]: sources }
SetSources(map, key, sources) == Append(map, [key |-> key, sources |-> sources])

RECURSIVE LookupSources(_, _)
LookupSources(map, key) ==
  IF map = <<>> THEN <<>>
  ELSE IF map[Len(map)].key = key THEN map[Len(map)].sources
  ELSE LookupSources(SubSeq(map, 1, Len(map) - 1), key)

\* ChatMessages: const sourceKey = (props.messages.length - 1 - i).toString();
\* i is the 0-based place of the message
SourceKey(messages, i) == NumberToString(Len(messages) - 1 - i)

\* the sources the window shows with the message at 0-based place i: none
\* for an intermediate step (role system), sourcesForMessages[sourceKey] otherwise
DisplayedSources(messages, map, i) ==
  IF messages[i + 1].role = "system" THEN <<>>
  ELSE LookupSources(map, SourceKey(messages, i))

\* sendMessage without intermediate steps: chat.handleSubmit(e) appends the
\* user's message and posts the whole conversation to the endpoint
HandleSubmit ==
  /\ cpc = "idle"
  /\ ~(isLoading \/ intermediateStepsLoading)
  /\ Len(delivered) < MaxExchanges
  /\ \E input \in Contents :
       chatMessages' = Append(chatMessages, [role |-> "user", content |-> input])
  /\ requestMessages' = chatMessages'
  /\ isLoading' = TRUE
  /\ cpc' = "awaiting"
  /\ UNCHANGED <<sourcesForMessages, delivered>>
  /\ UNCHANGED <<serverVars, dbVars, concVars, traceVars>>

\* onResponse(response) of useChat: read x-sources and x-message-index and
\* store the sources under the index; an error response carries neither
\* header and ends the exchange
OnResponse ==
  /\ cpc = "awaiting"
  /\ \E docs \in DocumentLists :
     \E resp \in {RetrievalResponse(SliceButLast(requestMessages), docs)}
                 \cup {CatchResponse(e) : e \in ProviderErrors} :
       LET sources == DecodeSources(resp.xSources)
           messageIndexHeader == resp.xMessageIndex
       IN /\ sourcesForMessages' =
               IF Len(sources) > 0 /\ messageIndexHeader # <<>>
                 THEN SetSources(sourcesForMessages, messageIndexHeader, sources)
                 ELSE sourcesForMessages
          /\ IF resp.kind = "stream"
               THEN /\ cpc' = "streaming"
                    /\ delivered' = Append(delivered,
                                            [answerAt |-> 0, sources |-> sources,
                                             index |-> messageIndexHeader,
                                             documents |-> docs])
                    /\ UNCHANGED isLoading
               ELSE /\ cpc' = "idle"
                    /\ isLoading' = FALSE
                    /\ delivered' = Append(delivered,
                                            [answerAt |-> 0, sources |-> <<>>,
                                             index |-> messageIndexHeader,
                                             documents |-> <<>>])
  /\ UNCHANGED <<chatMessages, requestMessages>>
  /\ UNCHANGED <<serverVars, dbVars, concVars, traceVars>>

\* useChat appends the streamed answer as the assistant message that follows
\* the messages of the request, and the exchange ends
ReceiveAnswer ==
  /\ cpc = "streaming"
  /\ \E answer \in Contents :
       chatMessages' = Append(chatMessages, [role |-> "assistant", content |-> answer])
  /\ delivered' = [delivered EXCEPT ![Len(delivered)].answerAt = Len(chatMessages')]
  /\ isLoading' = FALSE
  /\ cpc' = "idle"
  /\ UNCHANGED <<sourcesForMessages, requestMessages>>
  /\ UNCHANGED <<serverVars, dbVars, concVars, traceVars>>

\* ------------------------------------------------------------------ database
\* embedding vector(1536) / query_embedding vector(1536) of SUPABASE_SETUP.sql,
\* embedding vector(1024) / query_embedding vector(1024) of
\* SUPABASE_SETUP_grok.sql, and dimensions: 1024 of the route's OpenAIEmbeddings
ColumnDimensionsSetup == 1536
ParameterDimensionsSetup == 1536
ColumnDimensionsGrok == 1024
ParameterDimensionsGrok == 1024
EmbeddingDimensions == 1024

Setups == {"SUPABASE_SETUP", "SUPABASE_SETUP_grok"}

ColumnDimensions(setup) ==
  IF setup = "SUPABASE_SETUP" THEN ColumnDimensionsSetup ELSE ColumnDimensionsGrok

ParameterDimensions(setup) ==
  IF setup = "SUPABASE_SETUP" THEN ParameterDimensionsSetup ELSE ParameterDimensionsGrok

\* a vector of `dims` components: the first two are `coords`, every other
\* component is 0. The coordinates are chosen with whole-number lengths, so
\* that cosines are exact fractions; <<0, 0>> is the zero vector.
Coords == {<<0, 0>>, <<1, 0>>, <<0, 2>>, <<3, 4>>, <<4, 3>>, <<-3, -4>>}
Vectors ==
  [isNull : {FALSE}, dims : {ColumnDimensionsSetup, ColumnDimensionsGrok}, coords : Coords]
\* `embedding vector(n)` has no NOT NULL: a row may hold no embedding
NullVector == [isNull |-> TRUE, dims |-> 0, coords |-> <<0, 0>>]

\* float8 values: exact fractions num/den with den > 0, NaN, and SQL NULL
Fraction(n, d) == [kind |-> "number", num |-> n, den |-> d]
NaN == [kind |-> "NaN", num |-> 0, den |-> 1]
Null == [kind |-> "NULL", num |-> 0, den |-> 1]
\* 1 - x: NaN for NaN, NULL for NULL
OneMinus(x) == IF x.kind = "number" THEN Fraction(x.den - x.num, x.den) ELSE x
\* x <= y and x < y are true: a comparison with NULL is never true, and
\* PostgreSQL treats NaN as equal to NaN and greater than every number
LessEq(x, y) ==
  /\ x.kind # "NULL"
  /\ y.kind # "NULL"
  /\ IF y.kind = "NaN" THEN TRUE
     ELSE IF x.kind = "NaN" THEN FALSE
     ELSE x.num * y.den <= y.num * x.den
Less(x, y) ==
  /\ x.kind # "NULL"
  /\ y.kind # "NULL"
  /\ IF x.kind = "NaN" THEN FALSE
     ELSE IF y.kind = "NaN" THEN TRUE
     ELSE x.num * y.den < y.num * x.den
Zero == Fraction(0, 1)
One == Fraction(1, 1)

Dot(a, b) == a.coords[1] * b.coords[1] + a.coords[2] * b.coords[2]
Norm(a) == CHOOSE n \in 0..MaxNorm : n * n = Dot(a, a)

\* pgvector's distance operators raise an error for vectors of different
\* dimensions; they are strict, so with a NULL operand nothing is compared
SameDimensions(a, b) == a.isNull \/ b.isNull \/ a.dims = b.dims

\* pgvector's <=> : 1 - (a . b) / (|a| |b|); NULL when an operand is NULL,
\* NaN (0 / 0) when an operand is the zero vector
InnerProductDistance(a, b) == Fraction(1 - Dot(a, b), 1)
cosine_distance(a, b) ==
  IF a.isNull \/ b.isNull THEN Null
  ELSE IF Dot(a, a) = 0 \/ Dot(b, b) = 0 THEN NaN
  ELSE OneMinus(Fraction(Dot(a, b), Norm(a) * Norm(b)))

\* metadata JSONB as the set of its top-level entries; filter JSONB DEFAULT NULL
MetadataValues == {{}, {"src"}}
NullFilter == [isNull |-> TRUE, value |-> {}]
Filters == {NullFilter} \cup [isNull : {FALSE}, value : MetadataValues]

\* metadata @> filter: every entry of the filter is in the metadata
Contains(metadata, filter) == filter \subseteq metadata

\* match_threshold float default 0.78 of the grok script
DefaultThreshold == Fraction(39, 50)
Thresholds == {DefaultThreshold, Fraction(0, 1)}
NoThreshold == Fraction(0, 1)

DocContents == {<<"a">>}
Rows ==
  [content : DocContents, metadata : MetadataValues,
   embedding : Vectors \cup {NullVector}]

\* WHERE CASE WHEN filter IS NOT NULL THEN documents.metadata @> filter ELSE TRUE END
\* (SUPABASE_SETUP.sql); WHERE 1 - (embedding <=> query_embedding) >
\* match_threshold (SUPABASE_SETUP_grok.sql)
Where(setup, row, call) ==
  IF setup = "SUPABASE_SETUP"
    THEN IF ~call.filter.isNull THEN Contains(row.metadata, call.filter.value) ELSE TRUE
    ELSE Less(call.match_threshold,
              OneMinus(cosine_distance(row.embedding, call.query_embedding)))

\* the positions of the table's rows that pass the WHERE clause
Eligible(setup, table, call) ==
  {i \in 1..Len(table) : Where(setup, table[i], call)}

\* ORDER BY documents.embedding <=> query_embedding (ascending)
OrderBySimilarity(row, query_embedding) ==
  OneMinus(cosine_distance(row.embedding, query_embedding))
OrderBy(row, query_embedding) == cosine_distance(row.embedding, query_embedding)

\* the orders ORDER BY may produce for the given rows: every arrangement in
\* which the sort key never decreases (rows with equal keys come in any
\* order); ascending order puts NaN after every number and NULL last
Orderings(table, positions, query_embedding) ==
  LET NotAfter(x, y) == y.kind = "NULL" \/ LessEq(x, y)
  IN {s \in [1..Cardinality(positions) -> positions] :
        /\ \A i, j \in DOMAIN s : i # j => s[i] # s[j]
        /\ \A i, j \in DOMAIN s :
             i < j => NotAfter(OrderBy(table[s[i]], query_embedding),
                               OrderBy(table[s[j]], query_embedding))}

\* CREATE INDEX ... ON documents USING ivfflat (embedding vector_cosine_ops)
\* WITH (lists = 100), made by both scripts: the sets of rows an index scan
\* for ORDER BY embedding <=> query_embedding LIMIT match_count may read,
\* which are the rows of the list whose centre is nearest to the query. The
\* index holds no row whose embedding is NULL or the zero vector. A row lies
\* in the list whose centre is nearest to its own embedding, so the indexed
\* rows in the direction of the query are always read and rows of one
\* direction are read together; which other rows share the list depends on
\* the centres.
Scanned(table, query_embedding) ==
  LET SameDirection(a, b) ==
        cosine_distance(a, b).kind = "number" /\ cosine_distance(a, b).num = 0
      indexed == {i \in 1..Len(table) :
                    SameDirection(table[i].embedding, table[i].embedding)}
  IN {scanned \in SUBSET indexed :
        /\ \A i \in indexed :
             SameDirection(table[i].embedding, query_embedding) => i \in scanned
        /\ \A i \in scanned : \A j \in indexed :
             SameDirection(table[i].embedding, table[j].embedding) => j \in scanned}

\* LIMIT match_count
Limit(s, count) == IF Len(s) <= count THEN s ELSE SubSeq(s, 1, count)

\* SELECT id, content, metadata, 1 - (embedding <=> query_embedding) AS similarity
Select(row, query_embedding) ==
  [id |-> row.id, content |-> row.content, metadata |-> row.metadata,
   similarity |-> OneMinus(cosine_distance(row.embedding, query_embedding))]

NoCall ==
  [made |-> FALSE, fromRoute |-> FALSE, query_embedding |-> NullVector,
   match_count |-> 0, filter |-> NullFilter, match_threshold |-> NoThreshold]
NoResult == [status |-> "none", rows |-> <<>>]
DimensionError == [status |-> "error", rows |-> <<>>]

\* the results match_documents may return for a call: the rows read that
\* pass WHERE, in ascending distance, cut at match_count. The planner runs
\* the query as a sequential scan with a sort or as a scan of the ivfflat
\* index; with LIMIT 0 no row is fetched and nothing is evaluated.
match_documents(setup, table, call) ==
  LET eligible == Eligible(setup, table, call)
      Result(read) ==
        {[status |-> "ok",
          rows |-> Limit([k \in DOMAIN s |-> Select(table[s[k]], call.query_embedding)],
                         call.match_count)] :
           s \in Orderings(table, eligible \cap read, call.query_embedding)}
      \* sequential scan: the distance is evaluated for the rows WHERE is
      \* evaluated on (grok) or lets through (SELECT list and ORDER BY)
      measured == IF setup = "SUPABASE_SETUP" THEN eligible ELSE 1..Len(table)
      SeqScan ==
        IF \E i \in measured : ~SameDimensions(table[i].embedding, call.query_embedding)
          THEN {DimensionError}
          ELSE Result(1..Len(table))
      \* index scan: the query is first compared with the centres of the
      \* lists, which have the dimensions of the column
      IndexScan ==
        IF ~call.query_embedding.isNull
             /\ call.query_embedding.dims # ColumnDimensions(setup)
          THEN {DimensionError}
          ELSE UNION {Result(scanned) : scanned \in Scanned(table, call.query_embedding)}
  IN IF call.match_count = 0
       THEN {[status |-> "ok", rows |-> <<>>]}
       ELSE SeqScan \cup IndexScan

DbInit ==
  /\ dbSetup = "none"
  /\ documentsTable = <<>>
  /\ matchCall = NoCall
  /\ matchResult = NoResult

\* one of the setup scripts is run: CREATE TABLE documents, CREATE FUNCTION
\* match_documents
RunSetup ==
  /\ UNCHANGED <<serverVars, clientVars, concVars, traceVars>>
  /\ dbSetup = "none"
  /\ \E setup \in Setups : dbSetup' = setup
  /\ UNCHANGED <<documentsTable, matchCall, matchResult>>

\* INSERT INTO documents (content, metadata, embedding): id is the next value
\* of the sequence; the column's vector(n) rejects any other dimension and
\* accepts NULL
InsertDocument ==
  /\ UNCHANGED <<serverVars, clientVars, concVars, traceVars>>
  /\ dbSetup \in Setups
  /\ ~matchCall.made
  /\ Len(documentsTable) < MaxRows
  /\ \E row \in Rows :
       /\ row.embedding.isNull \/ row.embedding.dims = ColumnDimensions(dbSetup)
       /\ documentsTable' =
            Append(documentsTable,
                   [id |-> Len(documentsTable) + 1, content |-> row.content,
                    metadata |-> row.metadata, embedding |-> row.embedding])
  /\ UNCHANGED <<dbSetup, matchCall, matchResult>>

\* SELECT * FROM match_documents(query_embedding, match_count, filter) on the
\* database of SUPABASE_SETUP.sql
MatchDocuments ==
  /\ UNCHANGED <<serverVars, clientVars, concVars, traceVars>>
  /\ dbSetup = "SUPABASE_SETUP"
  /\ ~matchCall.made
  /\ \E q \in Vectors \cup {NullVector}, count \in 0..MaxLimit, f \in Filters :
       LET call == [made |-> TRUE, fromRoute |-> FALSE, query_embedding |-> q,
                    match_count |-> count, filter |-> f, match_threshold |-> NoThreshold]
       IN /\ matchCall' = call
          /\ matchResult' \in match_documents(dbSetup, documentsTable, call)
  /\ UNCHANGED <<dbSetup, documentsTable>>

\* SELECT * FROM match_documents(query_embedding, match_threshold, match_count)
\* on the database of SUPABASE_SETUP_grok.sql
MatchDocumentsGrok ==
  /\ UNCHANGED <<serverVars, clientVars, concVars, traceVars>>
  /\ dbSetup = "SUPABASE_SETUP_grok"
  /\ ~matchCall.made
  /\ \E q \in Vectors \cup {NullVector}, count \in 0..MaxLimit, t \in Thresholds :
       LET call == [made |-> TRUE, fromRoute |-> FALSE, query_embedding |-> q,
                    match_count |-> count,
                    filter |-> NullFilter, match_threshold |-> t]
       IN /\ matchCall' = call
          /\ matchResult' \in match_documents(dbSetup, documentsTable, call)
  /\ UNCHANGED <<dbSetup, documentsTable>>

\* the retrieval route's retriever: the question is embedded with the
\* route's OpenAIEmbeddings and match_documents is called through the vector
\* store with the retriever's k and no filter
SimilaritySearch ==
  /\ UNCHANGED <<serverVars, clientVars, concVars, traceVars>>
  /\ dbSetup \in Setups
  /\ ~matchCall.made
  /\ \E c \in Coords, count \in 1..MaxLimit :
       LET call == [made |-> TRUE, fromRoute |-> TRUE,
                    query_embedding |->
                      [isNull |-> FALSE, dims |-> EmbeddingDimensions, coords |-> c],
                    match_count |-> count, filter |-> NullFilter,
                    match_threshold |-> IF dbSetup = "SUPABASE_SETUP"
                                          THEN NoThreshold ELSE DefaultThreshold]
       IN /\ matchCall' = call
          /\ matchResult' \in match_documents(dbSetup, documentsTable, call)
  /\ UNCHANGED <<dbSetup, documentsTable>>

DbNext ==
  \/ RunSetup
  \/ InsertDocument
  \/ MatchDocuments
  \/ MatchDocumentsGrok
  \/ SimilaritySearch

\* ------------------------------------------------------- concurrent requests
\* two invocations of the retrieval POST served at the same time; each has
\* its own locals, and the steps of the two interleave at every await
RequestIds == {1, 2}

\* the message lists the concurrent requests carry
ConcurrentMessageLists ==
  {m \in MessageLists :
     /\ \A i \in DOMAIN m : m[i].role = (IF i % 2 = Len(m) % 2 THEN "user" ELSE "assistant")
     /\ \A i \in DOMAIN m : i < Len(m) => m[i].content = <<"a">>}

IdleRequest ==
  [pc |-> "idle", messages |-> <<>>, previousMessages |-> <<>>,
   currentMessageContent |-> <<>>, standaloneQuestion |-> <<>>,
   retrieved |-> <<>>, documents |-> <<>>, answerInput |-> NoAnswerInput,
   response |-> NoResponse]

NoPromise == [state |-> "none", value |-> <<>>]

\* new Promise((resolve) => { resolveWithDocuments = resolve }): a pending
\* promise
NewPromise == [state |-> "pending", value |-> <<>>]

\* resolve(value): settles a pending promise, and does nothing to a settled one
Resolve(promise, value) ==
  IF promise.state = "pending" THEN [state |-> "resolved", value |-> value] ELSE promise

\* the promise `documentPromise` names in invocation r: the constant is
\* declared inside POST, so each invocation has its own
PromiseOfShared(r) == 1
PromiseOf(r) == r

ConcInit ==
  /\ requests = [r \in RequestIds |-> IdleRequest]
  /\ promises = [p \in RequestIds |-> NoPromise]

\* invocation r ends in the catch clause
ConcThrow(r, e) ==
  requests' = [requests EXCEPT ![r].pc = "done", ![r].response = CatchResponse(e)]

\* POST(req) is invoked for request r: the body is parsed, the locals are
\* bound, and documentPromise is created
ConcReceive(r) ==
  /\ UNCHANGED <<serverVars, clientVars, dbVars, traceVars>>
  /\ requests[r].pc = "idle"
  /\ \E messages \in ConcurrentMessageLists :
       LET latest == LatestMessage(messages)
       IN IF ~latest.defined
            THEN /\ requests' = [requests EXCEPT ![r].pc = "done",
                                                 ![r].messages = messages,
                                                 ![r].response = CatchResponse(TypeError)]
                 /\ UNCHANGED promises
            ELSE /\ requests' = [requests EXCEPT
                                   ![r].pc = "condense",
                                   ![r].messages = messages,
                                   ![r].previousMessages = SliceButLast(messages),
                                   ![r].currentMessageContent = latest.content]
                 /\ promises' = [promises EXCEPT ![PromiseOf(r)] = NewPromise]

\* standaloneQuestionChain of invocation r
ConcCondense(r) ==
  /\ UNCHANGED <<serverVars, clientVars, dbVars, traceVars>>
  /\ requests[r].pc = "condense"
  /\ \/ \E e \in ProviderErrors : ConcThrow(r, e)
     \/ \E q \in Contents :
          requests' = [requests EXCEPT ![r].pc = StepAfter("condense"),
                                       ![r].standaloneQuestion = q]
  /\ UNCHANGED promises

\* the retriever of invocation r returns; handleRetrieverEnd(documents)
\* resolves documentPromise
ConcRetrieve(r) ==
  /\ UNCHANGED <<serverVars, clientVars, dbVars, traceVars>>
  /\ requests[r].pc = "retrieve"
  /\ \/ /\ \E e \in ProviderErrors : ConcThrow(r, e)
        /\ UNCHANGED promises
     \/ \E docs \in DocumentLists :
          /\ requests' = [requests EXCEPT ![r].pc = StepAfter("retrieve"),
                                          ![r].retrieved = docs]
          /\ promises' = [promises EXCEPT
                            ![PromiseOf(r)] = Resolve(promises[PromiseOf(r)], docs)]

\* answerPrompt and the model of invocation r: the stream of the answer is
\* the one the model produces for this prompt
ConcAnswer(r) ==
  /\ UNCHANGED <<serverVars, clientVars, dbVars, traceVars>>
  /\ requests[r].pc = "answer"
  /\ \/ \E e \in ProviderErrors : ConcThrow(r, e)
     \/ requests' =
          [requests EXCEPT
             ![r].pc = StepAfter("answer"),
             ![r].answerInput =
                AnswerPromptInput(AnswerChainInput(requests[r].standaloneQuestion,
                                                   requests[r].previousMessages),
                                  requests[r].retrieved)]
  /\ UNCHANGED promises

\* const documents = await documentPromise; return new StreamingTextResponse(
\* stream, { headers }) in invocation r
ConcPackage(r) ==
  /\ UNCHANGED <<serverVars, clientVars, dbVars, traceVars>>
  /\ requests[r].pc = "package"
  /\ promises[PromiseOf(r)].state = "resolved"
  /\ LET awaited == promises[PromiseOf(r)].value
     IN requests' =
          [requests EXCEPT
             ![r].pc = "streaming",
             ![r].documents = awaited,
             ![r].response = RetrievalResponse(requests[r].previousMessages, awaited)]
  /\ UNCHANGED promises

ConcNext ==
  \/ \E r \in RequestIds : ConcReceive(r)
  \/ \E r \in RequestIds : ConcCondense(r)
  \/ \E r \in RequestIds : ConcRetrieve(r)
  \/ \E r \in RequestIds : ConcAnswer(r)
  \/ \E r \in RequestIds : ConcPackage(r)

\* ------------------------------------------------- client: full-trace mode
\* sendMessage of ChatWindow with showIntermediateSteps switched on, together
\* with the agents route that serves its requests
RunIds == 1..MaxRuns

\* the locals of one invocation of sendMessage, and `posted`, the message
\* list written into the body of its fetch. newMessages is another name of
\* the array messagesWithUserReply (const newMessages = messagesWithUserReply),
\* so a push into one is a push into the other
IdleRun ==
  [pc |-> "idle", messagesWithUserReply |-> <<>>, posted |-> <<>>,
   responseMessages |-> <<>>, intermediateStepMessages |-> <<>>,
   newMessages |-> <<>>, shown |-> 0]

TraceInit ==
  /\ intermediateStepsLoading = FALSE
  /\ runs = [r \in RunIds |-> IdleRun]
  /\ serving = 0

\* responseMessages.filter(m => (m.role === "assistant" && !!m.tool_calls?.length)
\*                              || m.role === "tool")
IsToolCallMessage(responseMessage) ==
  \/ responseMessage.role = "assistant" /\ Len(responseMessage.tool_calls) > 0
  \/ responseMessage.role = "tool"

toolCallMessages(responseMessages) == SelectSeq(responseMessages, IsToolCallMessage)

\* JSON.stringify({ action: aiMessage.tool_calls?.[0], observation:
\* toolMessage?.content }); an undefined value leaves its key out, and the
\* tool call is written as its id
KeyAction == <<"a", "c", "t", "i", "o", "n">>
KeyObservation == <<"o", "b", "s", "e", "r", "v", "a", "t", "i", "o", "n">>
StepContent(aiMessage, hasToolMessage, toolMessage) ==
  LET action == IF Len(aiMessage.tool_calls) > 0
                  THEN <<JsonString(KeyAction) \o <<":">>
                           \o NumberToString(aiMessage.tool_calls[1])>>
                ELSE <<>>
      observation == IF hasToolMessage
                       THEN <<JsonString(KeyObservation) \o <<":">>
                                \o JsonString(toolMessage.content)>>
                     ELSE <<>>
  IN <<"{">> \o Join(action \o observation, <<",">>) \o <<"}">>

\* for (let i = 0; i < toolCallMessages.length; i += 2) { ... push({ role:
\* "system", content: JSON.stringify(...) }) }
IntermediateStepMessages(selected) ==
  [k \in 1..((Len(selected) + 1) \div 2) |->
     [role |-> "system",
      content |-> StepContent(selected[2 * k - 1], 2 * k <= Len(selected),
                              selected[IF 2 * k <= Len(selected) THEN 2 * k
                                       ELSE 2 * k - 1])]]

\* { content: responseMessages[responseMessages.length - 1].content, role: "assistant" }
FinalMessageFromFirst(responseMessages) ==
  [role |-> "assistant", content |-> responseMessages[1].content]
FinalMessage(responseMessages) ==
  [role |-> "assistant", content |-> responseMessages[Len(responseMessages)].content]

\* response.ok: the status is in the range 200..299
ResponseOk(resp) == resp.status >= 200 /\ resp.status <= 299

\* sendMessage up to the fetch: a submission made while a request is loading
\* is dropped; otherwise the flag is set, the user's message is appended and
\* shown, and the whole conversation is posted with show_intermediate_steps
SendMessage(r) ==
  /\ runs[r].pc = "idle"
  /\ \A q \in RunIds : q < r => runs[q].pc # "idle"
  /\ IF isLoading \/ intermediateStepsLoading
       THEN UNCHANGED <<chatMessages, intermediateStepsLoading, runs>>
       ELSE \E input \in Contents :
              LET messagesWithUserReply ==
                    Append(chatMessages, [role |-> "user", content |-> input])
              IN /\ intermediateStepsLoading' = TRUE
                 /\ chatMessages' = messagesWithUserReply
                 /\ runs' = [runs EXCEPT
                               ![r] = [IdleRun EXCEPT
                                         !.pc = "fetching",
                                         !.messagesWithUserReply = messagesWithUserReply,
                                         !.posted = messagesWithUserReply]]
  /\ UNCHANGED <<serving, sourcesForMessages, isLoading, cpc, requestMessages, delivered>>
  /\ UNCHANGED <<serverVars, dbVars, concVars>>

\* the request of a run arrives at the agents route: a new invocation of POST
TraceReceive(r) ==
  /\ runs[r].pc = "fetching"
  /\ serving = 0
  /\ serving' = r
  /\ endpoint' = "agents"
  /\ body' = [valid |-> TRUE, hasMessages |-> TRUE,
              messages |-> runs[r].posted, show |-> "true"]
  /\ pc' = "parse"
  /\ thrown' = NoError
  /\ response' = NoResponse
  /\ modelCalls' = 0
  /\ previousMessages' = <<>>
  /\ currentMessageContent' = <<>>
  /\ standaloneQuestion' = <<>>
  /\ retrieverQuery' = <<>>
  /\ documents' = <<>>
  /\ documentPromise' = "pending"
  /\ chainInput' = NoChainInput
  /\ answerInput' = NoAnswerInput
  /\ agentInput' = <<>>
  /\ agentMessages' = <<>>
  /\ node' = "none"
  /\ iters' = 0
  /\ events' = <<>>
  /\ providerDone' = FALSE
  /\ consumed' = 0
  /\ respChunks' = <<>>
  /\ streamState' = "none"
  /\ UNCHANGED <<intermediateStepsLoading, runs>>
  /\ UNCHANGED <<clientVars, dbVars, concVars>>

\* fetch rejects (the network fails) or response.json() rejects (the body is
\* no JSON): sendMessage ends with that exception, which nothing catches
FetchFails(r) ==
  /\ runs[r].pc = "fetching"
  /\ runs' = [runs EXCEPT ![r].pc = "aborted"]
  /\ serving' = IF serving = r THEN 0 ELSE serving
  /\ UNCHANGED intermediateStepsLoading
  /\ UNCHANGED <<serverVars, clientVars, dbVars, concVars>>

\* the response arrives and its JSON is read: the flag is cleared; a response
\* that is not ok ends the run with a toast; otherwise the steps are built
\* and the first of them is shown, or the final message when there is none
FetchReturns(r) ==
  /\ runs[r].pc = "fetching"
  /\ serving = r
  /\ pc = "done"
  /\ serving' = 0
  /\ intermediateStepsLoading' = FALSE
  /\ IF ~ResponseOk(response)
       THEN /\ runs' = [runs EXCEPT ![r].pc = "failed"]
            /\ UNCHANGED chatMessages
       ELSE LET responseMessages == response.messages
                steps == IntermediateStepMessages(toolCallMessages(responseMessages))
                messagesWithUserReply == runs[r].messagesWithUserReply
            IN IF steps = <<>>
                 THEN /\ chatMessages' =
                           Append(messagesWithUserReply, FinalMessage(responseMessages))
                      /\ runs' = [runs EXCEPT
                                    ![r].pc = "done",
                                    ![r].responseMessages = responseMessages,
                                    ![r].newMessages = messagesWithUserReply]
                 ELSE /\ chatMessages' = Append(messagesWithUserReply, steps[1])
                      /\ runs' = [runs EXCEPT
                                    ![r].pc = "displaying",
                                    ![r].responseMessages = responseMessages,
                                    ![r].intermediateStepMessages = steps,
                                    ![r].messagesWithUserReply = chatMessages',
                                    ![r].newMessages = chatMessages',
                                    ![r].shown = 1]
  /\ UNCHANGED <<sourcesForMessages, isLoading, cpc, requestMessages, delivered>>
  /\ UNCHANGED <<serverVars, dbVars, concVars>>

\* the timer of a shown step fires: the next step is pushed and shown, or,
\* after the last step, the final assistant message is appended
StepTimer(r) ==
  /\ runs[r].pc = "displaying"
  /\ IF runs[r].shown < Len(runs[r].intermediateStepMessages)
       THEN LET newMessages ==
                  Append(runs[r].newMessages,
                         runs[r].intermediateStepMessages[runs[r].shown + 1])
            IN /\ chatMessages' = newMessages
               /\ runs' = [runs EXCEPT ![r].messagesWithUserReply = newMessages,
                                       ![r].newMessages = newMessages,
                                       ![r].shown = runs[r].shown + 1]
       ELSE /\ chatMessages' =
                 Append(runs[r].newMessages, FinalMessage(runs[r].responseMessages))
            /\ runs' = [runs EXCEPT ![r].pc = "done"]
  /\ UNCHANGED <<intermediateStepsLoading, serving>>
  /\ UNCHANGED <<sourcesForMessages, isLoading, cpc, requestMessages, delivered>>
  /\ UNCHANGED <<serverVars, dbVars, concVars>>

TraceNext ==
  \/ \E r \in RunIds : SendMessage(r)
  \/ \E r \in RunIds : TraceReceive(r)
  \/ AgentsParse
  \/ AgentInvoke
  \/ AgentModelStep
  \/ AgentToolStep
  \/ AgentInvokeReturn
  \/ \E r \in RunIds : FetchFails(r)
  \/ \E r \in RunIds : FetchReturns(r)
  \/ \E r \in RunIds : StepTimer(r)

\* ------------------------------------------------------------ specification
Init == ServerInit /\ ClientInit /\ DbInit /\ ConcInit /\ TraceInit

Next ==
  \/ Receive
  \/ ParseLatest
  \/ StructuredInvoke
  \/ ChatStream
  \/ RetrievalCondense
  \/ RetrievalRetrieve
  \/ RetrievalAnswer
  \/ RetrievalPackage
  \/ ProviderChunk
  \/ ProviderEnd
  \/ PipeChunk
  \/ PipeClose
  \/ PipeFail
  \/ AgentsParse
  \/ AgentInvoke
  \/ AgentStreamEvents
  \/ AgentModelStep
  \/ AgentToolStep
  \/ AgentInvokeReturn
  \/ TransformEvent
  \/ TransformClose
  \/ TransformFail

vars == <<serverVars, clientVars, dbVars, concVars, traceVars>>

\* the route handlers serving one request
Spec == Init /\ [][Next]_vars

\* the chat and retrieval handlers serving one conversation
ConversationNext ==
  \/ ReceiveConversation
  \/ ParseLatest
  \/ ChatStream
  \/ RetrievalCondense
  \/ RetrievalRetrieve
  \/ RetrievalAnswer
  \/ RetrievalPackage
  \/ ProviderChunk
  \/ ProviderEnd
  \/ PipeChunk
  \/ PipeClose
  \/ PipeFail

SpecConversation == Init /\ [][ConversationNext]_vars

\* the two handlers up to the return of their response, with the event loop
\* running every continuation that is ready and every call to a provider
\* settling: each step of a handler that stays possible is eventually taken
HandlerNext ==
  \/ ReceiveConversation
  \/ ParseLatest
  \/ ChatStream
  \/ RetrievalCondense
  \/ RetrievalRetrieve
  \/ RetrievalAnswer
  \/ RetrievalPackage

HandlerFairness ==
  /\ WF_vars(ParseLatest)
  /\ WF_vars(ChatStream)
  /\ WF_vars(RetrievalCondense)
  /\ WF_vars(RetrievalRetrieve)
  /\ WF_vars(RetrievalAnswer)
  /\ WF_vars(RetrievalPackage)

SpecHandlerFair == Init /\ [][HandlerNext]_vars /\ HandlerFairness

ClientNext ==
  \/ HandleSubmit
  \/ OnResponse
  \/ ReceiveAnswer

\* the chat window over a conversation of retrieval exchanges
SpecClient == Init /\ [][ClientNext]_vars

\* the chat window in full-trace mode and the agents route serving it
SpecTrace == Init /\ [][TraceNext]_vars

\* the first submission of a full-trace conversation, with the agents route
\* and the event loop of the browser running every step that is ready (the
\* request arrives, the agent's model and tools answer, timers fire); a
\* failure of the network need not happen
FirstRunNext ==
  \/ SendMessage(1)
  \/ TraceReceive(1)
  \/ AgentsParse
  \/ AgentInvoke
  \/ AgentModelStep
  \/ AgentToolStep
  \/ AgentInvokeReturn
  \/ FetchFails(1)
  \/ FetchReturns(1)
  \/ StepTimer(1)

FirstRunFairness ==
  /\ WF_vars(TraceReceive(1))
  /\ WF_vars(AgentsParse)
  /\ WF_vars(AgentInvoke)
  /\ WF_vars(AgentModelStep)
  /\ WF_vars(AgentToolStep)
  /\ WF_vars(AgentInvokeReturn)
  /\ WF_vars(FetchReturns(1))
  /\ WF_vars(StepTimer(1))

SpecTraceFair == Init /\ [][FirstRunNext]_vars /\ FirstRunFairness

\* the agents route streaming an answer, with the loop of start() taking
\* every event that is there and going on when the event stream has ended
\* or failed
StreamingNext ==
  \/ ReceiveStreaming
  \/ AgentsParse
  \/ AgentStreamEvents
  \/ AgentModelStep
  \/ AgentToolStep
  \/ TransformEvent
  \/ TransformClose
  \/ TransformFail

StreamingFairness ==
  /\ WF_vars(TransformEvent)
  /\ WF_vars(TransformClose)
  /\ WF_vars(TransformFail)

SpecStreamingFair == Init /\ [][StreamingNext]_vars /\ StreamingFairness

\* the database: a setup script, inserted documents, one call of match_documents
SpecMatch == Init /\ [][DbNext]_vars

\* two retrieval requests served at the same time
SpecConcurrent == Init /\ [][ConcNext]_vars

\* ------------------------------------------------------------------- claims
\* the request carries no message: `messages` is absent or the empty list
EmptyOrAbsent(b) == ~b.hasMessages \/ Len(b.messages) = 0

\* C1 (as stated): the x-message-index header of a retrieval response equals
\* n - 1, the number of history messages of a request with n messages.
C1_HeaderIsHistoryLength ==
  (endpoint = "retrieval" /\ response.kind = "stream")
    => response.xMessageIndex = NumberToString(Len(body.messages) - 1)

\* C1 (amended): the x-message-index header of a retrieval response equals n,
\* the number of messages of the request (history plus the latest message),
\* which is the position the streamed answer takes in the conversation.
C1_HeaderIsRequestLength ==
  (endpoint = "retrieval" /\ response.kind = "stream")
    => /\ body.hasMessages
       /\ Len(body.messages) >= 1
       /\ Len(previousMessages) = Len(body.messages) - 1
       /\ response.xMessageIndex = NumberToString(Len(body.messages))

C1_Witness ==
  /\ endpoint = "retrieval"
  /\ response.kind = "stream"
  /\ Len(body.messages) = 2
  /\ response.xMessageIndex = <<"2">>

\* C3: on the chat, structured-output and retrieval routes a body without
\* messages ends in a JSON error with a status other than 200, and no model
\* provider is ever called for it.
C3_EmptyMessagesRejected ==
  (/\ endpoint \in {"chat", "structured_output", "retrieval"}
   /\ body.valid
   /\ EmptyOrAbsent(body))
    => /\ modelCalls = 0
       /\ pc \in {"parse", "done"}
       /\ response.kind \in {"none", "json_error"}
       /\ response.status # OkStatus
       /\ pc = "done" => /\ response.kind = "json_error"
                         /\ response.error = "TypeError"
                         /\ response.status = DefaultStatus

C3_Witness ==
  /\ endpoint = "retrieval"
  /\ body.valid
  /\ body.hasMessages
  /\ body.messages = <<>>
  /\ pc = "done"
  /\ response.kind = "json_error"
  /\ response.status = 500

\* C4 (as stated): on the agent route a body without messages ends in a JSON
\* error with a status other than 200 and the agent is never run on it.
C4_AgentRejectsEmptyMessages ==
  (endpoint = "agents" /\ body.valid /\ EmptyOrAbsent(body))
    => /\ node \in {"none", "__start__"}
       /\ modelCalls = 0
       /\ response.status # OkStatus
       /\ pc = "done" => response.kind = "json_error"

\* C5: a failure raised inside a handler always ends as the JSON error
\* { error: message } with the failure's status, or 500 when it has none, and
\* a JSON error is only ever returned for such a failure.
C5_FailureBecomesJsonError ==
  /\ thrown # NoError
       => /\ pc = "done"
          /\ response.kind = "json_error"
          /\ response.error = thrown.message
          /\ response.status =
               IF thrown.status = Undefined THEN 500 ELSE thrown.status
  /\ response.kind = "json_error" => thrown # NoError

C5_Witness ==
  /\ endpoint = "agents"
  /\ thrown.message = "ProviderError"
  /\ thrown.status = 429
  /\ response.kind = "json_error"
  /\ response.status = 429

\* the messages the agent run appended to its input, and the model outputs
\* among them
Appended == SubSeq(agentMessages, Len(agentInput) + 1, Len(agentMessages))
IsModelOutput(m) == m.type = "ai"
ModelOutputsSoFar == SelectSeq(Appended, IsModelOutput)

\* C6: the model node runs first; a model step whose output requests tool
\* calls is followed by the tool node, a model step whose output requests
\* none ends the run, a tool step is always followed by the model node, and
\* nothing runs after the end.
C6_Step ==
  /\ node = "__start__" => node' \in {"__start__", "agent"}
  /\ (node = "agent" /\ agentMessages' # agentMessages)
       => LET output == agentMessages'[Len(agentMessages')]
          IN /\ Len(agentMessages') = Len(agentMessages) + 1
             /\ output.type = "ai"
             /\ Len(output.tool_calls) > 0 => node' = "tools"
             /\ Len(output.tool_calls) = 0 => node' = "__end__"
  /\ (node = "agent" /\ agentMessages' = agentMessages)
       => node' \in {"agent", "failed"}
  /\ node = "tools"
       => \/ node' = "tools" /\ agentMessages' = agentMessages
          \/ /\ node' = "agent"
             /\ Len(agentMessages') > Len(agentMessages)
             /\ agentMessages'[Len(agentMessages')].type = "tool"
  /\ node = "__end__"
       => /\ node' = "__end__"
          /\ agentMessages' = agentMessages
          /\ modelCalls' = modelCalls

C6_AgentTransitions == [][C6_Step]_vars

C6_Witness ==
  /\ node = "__end__"
  /\ iters = 1
  /\ Len(ModelOutputsSoFar) = 2
  /\ Len(ModelOutputsSoFar[1].tool_calls) = 2

\* the chunks the transform writes for a sequence of events: one per model
\* delta with text, nothing for anything else
RECURSIVE TextDeltaChunks(_)
TextDeltaChunks(evs) ==
  IF evs = <<>> THEN <<>>
  ELSE LET ev == Head(evs)
       IN (IF ev.event = "on_chat_model_stream" /\ Len(ev.content) > 0
             THEN <<TextEncode(ev.content)>> ELSE <<>>) \o TextDeltaChunks(Tail(evs))

\* C8: in agent streaming mode the body holds exactly one chunk for every
\* processed on_chat_model_stream event with non-empty content, and nothing
\* for empty deltas or for any other event; a body that ended errored holds
\* the first of these chunks and nothing else.
C8_OnlyTextDeltasForwarded ==
  (endpoint = "agents" /\ streamState # "none")
    => LET written == TextDeltaChunks(SubSeq(events, 1, consumed))
       IN /\ streamState \in {"open", "closed"} => respChunks = written
          /\ Len(respChunks) <= Len(written)
          /\ \A i \in 1..Len(respChunks) : respChunks[i] = written[i]
          /\ \A i \in 1..Len(respChunks) : respChunks[i] # <<>>

C8_Witness ==
  /\ endpoint = "agents"
  /\ streamState = "closed"
  /\ \E i \in 1..Len(events) : events[i].event = "on_tool_end" /\ events[i].content # <<>>
  /\ \E i \in 1..Len(events) : events[i].event = "on_chat_model_stream" /\ events[i].content = <<>>
  /\ \E i \in 1..Len(events) : events[i].event = "on_chat_model_end" /\ events[i].content # <<>>
  /\ Len(respChunks) = 2

\* the chunks a streaming route is to forward, in the order they arrived
IsDelta(ev) == ev.event = "on_chat_model_stream"
HasText(ev) == ev.event = "on_chat_model_stream" /\ ev.content # <<>>
ToForward(evs) == IF endpoint = "agents" THEN SelectSeq(evs, HasText) ELSE SelectSeq(evs, IsDelta)

\* C9: on every streaming route the body is, chunk by chunk, a prefix of the
\* chunks to forward in arrival order (text bytes on the agent and retrieval
\* routes, the strings themselves on the plain chat route); every chunk taken
\* from the source is in the body at once while the stream is open, a closed
\* body holds them all, and a body that ended errored holds the first of them.
C9_ChunksInArrivalOrder ==
  streamState # "none"
    => LET all == ToForward(events)
           taken == ToForward(SubSeq(events, 1, consumed))
       IN /\ streamState \in {"open", "closed"} => Len(respChunks) = Len(taken)
          /\ Len(respChunks) <= Len(taken)
          /\ Len(respChunks) <= Len(all)
          /\ \A i \in 1..Len(respChunks) :
               respChunks[i] = OutputParser(endpoint, all[i].content)
          /\ streamState = "closed" => Len(respChunks) = Len(all)

C9_Witness ==
  /\ endpoint = "retrieval"
  /\ streamState = "closed"
  /\ Len(respChunks) = 2
  /\ respChunks[1] = <<195, 169>>
  /\ respChunks[2] = <<97>>

\* the user and assistant messages of the request, in order
IsUserOrAssistant(m) == m.role \in {"user", "assistant"}
RequestTurns == SelectSeq(IF body.hasMessages THEN body.messages ELSE <<>>, IsUserOrAssistant)

\* C10: with show_intermediate_steps set, nothing is sent before the run is
\* terminal, and the 200 JSON answer lists the request's user and assistant
\* messages in order followed by the assistant and tool messages of the run;
\* without the flag the answer is a stream and never the JSON list.
C10_FullTraceOrStream ==
  (endpoint = "agents" /\ body.valid)
    => /\ body.show = "true"
            => /\ streamState = "none" /\ respChunks = <<>>
               /\ response.kind \in {"none", "json", "json_error"}
               /\ node \in {"__start__", "agent", "tools"} => response.kind = "none"
               /\ response.kind = "json"
                    => /\ node = "__end__"
                       /\ response.status = 200
                       /\ Len(response.messages) = Len(agentMessages)
                       /\ Len(response.messages) > Len(RequestTurns)
                       /\ \A i \in 1..Len(RequestTurns) :
                            /\ response.messages[i].role = RequestTurns[i].role
                            /\ response.messages[i].content = RequestTurns[i].content
                       /\ \A i \in (Len(RequestTurns) + 1)..Len(response.messages) :
                            /\ response.messages[i].role \in {"assistant", "tool"}
                            /\ response.messages[i].role = "assistant"
                                 <=> agentMessages[i].type = "ai"
                            /\ response.messages[i].content = agentMessages[i].content
                            /\ response.messages[i].tool_calls = agentMessages[i].tool_calls
       /\ body.show # "true"
            => /\ response.kind \in {"none", "stream"}
               /\ response.messages = <<>>
               /\ pc \notin {"invoke", "invoking"}

C10_Witness ==
  /\ endpoint = "agents"
  /\ body.show = "true"
  /\ response.kind = "json"
  /\ Len(body.messages) = 2
  /\ body.messages[1].role = "assistant"
  /\ body.messages[2].role = "user"
  /\ Len(response.messages) = 5
  /\ response.messages[4].role = "tool"

\* C2 (as stated): the sources that came with the response to a request are
\* shown with the assistant answer to that request and with no other message,
\* whatever is appended to the conversation afterwards.
C2_SourcesOnOwnAnswer ==
  /\ \A r \in 1..Len(delivered) :
       (delivered[r].answerAt > 0 /\ delivered[r].sources # <<>>)
         => DisplayedSources(chatMessages, sourcesForMessages, delivered[r].answerAt - 1)
              = delivered[r].sources
  /\ \A i \in 0..(Len(chatMessages) - 1) :
       DisplayedSources(chatMessages, sourcesForMessages, i) # <<>>
         => \E r \in 1..Len(delivered) :
              /\ delivered[r].answerAt = i + 1
              /\ delivered[r].sources = DisplayedSources(chatMessages, sourcesForMessages, i)

\* ------------------------------------------------- C11: intermediate steps
\* the same selection on the run's own messages, which still carry the id of
\* the call a tool message answers
IsToolRelated(message) ==
  \/ message.type = "ai" /\ Len(message.tool_calls) > 0
  \/ message.type = "tool"

\* C11: in the list a terminated run returns, the tool-related messages
\* alternate: every even-indexed entry (0-based) is an assistant message with
\* a tool call and the entry after it is the tool message answering that call.
C11_ToolMessagesAlternate ==
  (endpoint = "agents" /\ response.kind = "json")
    => LET shown == toolCallMessages(response.messages)
           run   == SelectSeq(agentMessages, IsToolRelated)
       IN /\ Len(shown) % 2 = 0
          /\ \A i \in 1..Len(shown) :
               IF i % 2 = 1
                 THEN shown[i].role = "assistant" /\ Len(shown[i].tool_calls) > 0
                 ELSE /\ shown[i].role = "tool"
                      /\ run[i].tool_call_id = run[i - 1].tool_calls[1]

\* ------------------------------------------------- C12: order of the steps
\* C12: in a retrieval request the vector search is issued only once the
\* condenser has produced the standalone question, the answer model is called
\* only once retrieval has returned its documents, and the response with the
\* x-sources header is returned only once retrieval has completed (and then
\* carries the previews of exactly those documents).
C12_Step ==
  endpoint = "retrieval"
    => /\ (pc = "retrieve" /\ modelCalls' = modelCalls + 1)
            => /\ standaloneQuestion \in Contents
               /\ documentPromise = "pending"
               /\ ~answerInput.filled
       /\ (pc = "answer" /\ modelCalls' = modelCalls + 1)
            => /\ documentPromise = "resolved"
               /\ retrieverQuery \in Contents
               /\ response.kind = "none"
       /\ (response.kind = "none" /\ response'.kind = "stream")
            => /\ documentPromise = "resolved"
               /\ answerInput.filled
               /\ response'.xSources = serializedSources(documents)
               /\ DecodeSources(response'.xSources) = SourcePreviews(documents)
       /\ (pc = "condense" /\ pc' # pc) => pc' \in {"retrieve", "done"}
       /\ (pc = "retrieve" /\ pc' # pc) => pc' \in {"answer", "done"}
       /\ (pc = "answer" /\ pc' # pc) => pc' \in {"package", "done"}
       /\ (pc = "package" /\ pc' # pc) => pc' = "streaming"

C12_StepsInOrder == [][C12_Step]_vars

C12_Witness ==
  /\ endpoint = "retrieval"
  /\ response.kind = "stream"
  /\ standaloneQuestion \in Contents
  /\ documentPromise = "resolved"
  /\ Len(documents) = MaxDocs
  /\ answerInput.filled
  /\ Len(DecodeSources(response.xSources)) = MaxDocs

\* --------------------------------------------- C13: the retriever's query
\* C13: the query handed to the retriever is the condenser's output,
\* unchanged, and the question placed in the answer prompt is that same
\* string; when the condenser returns the user's latest message for a request
\* without history, the retriever is queried with exactly that message.
C13_QueryIsStandaloneQuestion ==
  endpoint = "retrieval"
    => /\ (pc \in {"answer", "package", "streaming"} \/ documentPromise = "resolved")
            => retrieverQuery = standaloneQuestion
       /\ answerInput.filled
            => /\ answerInput.question = standaloneQuestion
               /\ answerInput.question = retrieverQuery
       /\ (documentPromise = "resolved" /\ previousMessages = <<>>
             /\ standaloneQuestion = currentMessageContent)
            => retrieverQuery = currentMessageContent

C13_Witness ==
  /\ endpoint = "retrieval"
  /\ response.kind = "stream"
  /\ previousMessages = <<>>
  /\ standaloneQuestion = currentMessageContent
  /\ retrieverQuery = <<"E">>
  /\ answerInput.question = <<"E">>

\* ------------------------------------------- C14..C17, C20: match_documents
Same(x, y) == LessEq(x, y) /\ LessEq(y, x)

\* the similarity of the stored row a result row was selected from
StoredSimilarity(r) ==
  OneMinus(cosine_distance(documentsTable[r.id].embedding, matchCall.query_embedding))

Returned == {matchResult.rows[k].id : k \in DOMAIN matchResult.rows}

Min(a, b) == IF a <= b THEN a ELSE b

C15_AtMostCountMostSimilar ==
  (matchCall.made /\ matchResult.status = "ok")
    => LET eligible == Eligible(dbSetup, documentsTable, matchCall)
       IN /\ Len(matchResult.rows) <= matchCall.match_count
          /\ Len(matchResult.rows) = Min(matchCall.match_count, Cardinality(eligible))
          /\ Returned \subseteq eligible
          /\ Cardinality(Returned) = Len(matchResult.rows)
          /\ \A k \in DOMAIN matchResult.rows :
               /\ matchResult.rows[k].content = documentsTable[matchResult.rows[k].id].content
               /\ matchResult.rows[k].metadata = documentsTable[matchResult.rows[k].id].metadata
          /\ \A i \in eligible \ Returned : \A k \in DOMAIN matchResult.rows :
               LessEq(OneMinus(cosine_distance(documentsTable[i].embedding,
                                               matchCall.query_embedding)),
                      matchResult.rows[k].similarity)

C17_SimilarityInUnitInterval ==
  (matchCall.made /\ matchResult.status = "ok")
    => \A k \in DOMAIN matchResult.rows :
         /\ Same(matchResult.rows[k].similarity, StoredSimilarity(matchResult.rows[k]))
         /\ LessEq(Zero, matchResult.rows[k].similarity)
         /\ LessEq(matchResult.rows[k].similarity, One)

\* C20: the query vector the retrieval route sends has the dimensions
\* declared for the embedding column and for the query_embedding parameter of
\* the setup script that was run; a query of another dimension fails.
C20_QueryDimensionsMatchSetup ==
  matchCall.made
    => /\ matchCall.fromRoute
            => /\ matchCall.query_embedding.dims = ColumnDimensions(dbSetup)
               /\ matchCall.query_embedding.dims = ParameterDimensions(dbSetup)
       /\ matchCall.query_embedding.dims # ColumnDimensions(dbSetup)
            => matchResult.status = "error"

\* ------------------------------------------------ C18: failure in mid-stream
IsPrefix(s, t) == Len(s) <= Len(t) /\ SubSeq(t, 1, Len(s)) = s

\* the source of the response stream has failed and the failure has not yet
\* reached the stream
SourceFailing ==
  /\ pc = "streaming"
  /\ streamState = "open"
  /\ IF endpoint = "agents" THEN node = "failed" ELSE ~providerDone

\* C18: chunks forwarded to the caller are never taken back; a stream whose
\* source failed after k chunks ends errored, never closed, with exactly
\* those k chunks; nothing is forwarded afterwards, the 200 response is not
\* replaced, and the provider is not called again.
C18_Step ==
  /\ IsPrefix(respChunks, respChunks')
  /\ (SourceFailing /\ streamState' # "open")
       => /\ streamState' = "errored"
          /\ respChunks' = respChunks
          /\ modelCalls' = modelCalls
  /\ (endpoint = "agents" /\ pc = "streaming" /\ node = "failed")
       => /\ modelCalls' = modelCalls
          /\ node' = "failed"
          /\ streamState' # "closed"
  /\ (endpoint \in {"chat", "retrieval"} /\ pc = "streaming")
       => modelCalls' = modelCalls
  /\ streamState = "errored"
       => /\ streamState' = "errored"
          /\ respChunks' = respChunks
          /\ modelCalls' = modelCalls
          /\ response' = response
          /\ events' = events

C18_PartialOutputKept == [][C18_Step]_vars

\* -------------------------------------------- C19: independence of requests
\* C19: whatever the interleaving of two retrieval requests, the response of
\* each carries the x-message-index of its own message list, the x-sources
\* of the documents its own retrieval returned, and the answer stream of the
\* prompt built from its own question, history and documents.
C19_RequestsIndependent ==
  \A r \in RequestIds :
    LET q == requests[r]
    IN /\ q.response.kind = "stream"
            => /\ q.response.xMessageIndex = NumberToString(Len(q.messages))
               /\ q.response.xSources = serializedSources(q.retrieved)
               /\ q.documents = q.retrieved
               /\ promises[r] = [state |-> "resolved", value |-> q.retrieved]
               /\ q.answerInput.filled
               /\ q.answerInput.question = q.standaloneQuestion
               /\ q.answerInput.context = combineDocumentsFn(q.retrieved)
               /\ q.answerInput.chat_history
                    = formatVercelMessages(SliceButLast(q.messages))
       /\ q.pc \in {"condense", "retrieve"} => promises[r] = NewPromise

C19_Witness ==
  /\ requests[1].response.kind = "stream"
  /\ requests[2].response.kind = "stream"
  /\ Len(requests[1].retrieved) = MaxDocs
  /\ requests[2].retrieved # requests[1].retrieved
  /\ Len(requests[1].messages) # Len(requests[2].messages)
  /\ requests[1].response.xSources # requests[2].response.xSources
  /\ requests[1].response.xMessageIndex # requests[2].response.xMessageIndex


\* ------------------------------------------ C21: x-sources header round trip
\* C21: what the client decodes from the x-sources header of a retrieval
\* response (base64 decoding, then JSON parsing) has one entry per retrieved
\* document, in the order of the documents; the pageContent of an entry is
\* the first PreviewLength characters of the document's content followed by
\* "...", and its metadata is the document's metadata.
C21_DecodedSourcesArePreviews ==
  \A r \in 1..Len(delivered) :
    LET d == delivered[r]
    IN /\ Len(d.sources) = Len(d.documents)
       /\ \A k \in 1..Len(d.documents) :
            LET content == d.documents[k].pageContent
                kept == Min(Len(content), PreviewLength)
                preview == d.sources[k].pageContent
            IN /\ Len(preview) = kept + 3
               /\ \A c \in 1..kept : preview[c] = content[c]
               /\ \A c \in (kept + 1)..(kept + 3) : preview[c] = "."
               /\ d.sources[k].metadata = d.documents[k].metadata

\* a response with MaxDocs documents was decoded, one of them longer than
\* the preview and holding a quote, a backslash and a character outside ASCII
C21_Witness ==
  \E r \in 1..Len(delivered) :
    /\ Len(delivered[r].documents) = MaxDocs
    /\ Len(delivered[r].sources) = MaxDocs
    /\ delivered[r].documents[1] # delivered[r].documents[MaxDocs]
    /\ \E k \in 1..MaxDocs :
         /\ Len(delivered[r].documents[k].pageContent) > PreviewLength
         /\ delivered[r].sources[k].pageContent[1] = "\""
         /\ delivered[r].sources[k].pageContent[2] = "\\"
         /\ delivered[r].sources[k].pageContent[PreviewLength] = "E"


\* --------------------------------------- C22: chat history and question split
\* C22: when the chat or the retrieval handler starts its chain on a request
\* of n >= 1 messages, the chat history it passes is the first n - 1
\* messages in their order, one per line, each as "<prefix>: <content>" with
\* the prefix Human / Assistant / the role name in the retrieval handler and
\* the role name in the chat handler, and the question it passes is the
\* content of the n-th message, which is no line of the history.
C22_HistoryAndQuestionSplit ==
  (endpoint \in {"chat", "retrieval"} /\ chainInput.filled)
    => LET messages == body.messages
           n == Len(messages)
           Prefix(m) ==
             IF endpoint = "retrieval" /\ m.role = "user" THEN <<"H", "u", "m", "a", "n">>
             ELSE IF endpoint = "retrieval" /\ m.role = "assistant"
               THEN <<"A", "s", "s", "i", "s", "t", "a", "n", "t">>
             ELSE RoleText(m.role)
           Line(m) == Prefix(m) \o <<":", " ">> \o m.content
           history == chainInput.chat_history
           question == IF endpoint = "retrieval" THEN chainInput.question
                       ELSE chainInput.input
           Breaks == {c \in 1..Len(history) : history[c] = "\n"}
           \* where the i-th line of the history starts: after the i - 1
           \* lines before it and their line breaks
           StartOf(i) == i + Len(Join([k \in 1..(i - 1) |-> Line(messages[k])], <<>>))
       IN /\ n >= 1
          /\ question = messages[n].content
          /\ Cardinality(Breaks) = IF n >= 2 THEN n - 2 ELSE 0
          /\ Len(history) = Len(Join([k \in 1..(n - 1) |-> Line(messages[k])], <<"\n">>))
          /\ \A i \in 1..(n - 1) :
               SubSeq(history, StartOf(i), StartOf(i) + Len(Line(messages[i])) - 1)
                 = Line(messages[i])

\* the retrieval handler started its chain on a conversation of MaxTurns
\* messages whose history holds a user message and another role
C22_Witness ==
  /\ endpoint = "retrieval"
  /\ chainInput.filled
  /\ Len(body.messages) = MaxTurns
  /\ body.messages[1].role = "user"
  /\ body.messages[2].role # "user"
  /\ \E c \in 1..Len(chainInput.chat_history) : chainInput.chat_history[c] = "\n"


\* ------------------------------------- C23: the conversation grows by appending
\* C23: in full-trace mode every list of messages sendMessage sets has the
\* list displayed before it as a prefix: messages are only appended, never
\* removed or replaced.
C23_ConversationOnlyGrows == [][IsPrefix(chatMessages, chatMessages')]_vars

\* ----------------------------------------- C24: one submission at a time
\* a run of sendMessage that was accepted and has not yet appended its final
\* message, ended with the error toast or been aborted by an exception
InProgress(r) == runs[r].pc \in {"fetching", "displaying"}

\* C24: from the acceptance of a full-trace submission until its final
\* assistant message is appended, the delayed display of its steps included,
\* no further submission is accepted: at most one run of sendMessage is in
\* progress.
C24_OneSubmissionAtATime ==
  \A r1, r2 \in RunIds : (InProgress(r1) /\ InProgress(r2)) => r1 = r2


\* ------------------------------------- C25: a retrieval request is answered
\* C25: every retrieval request eventually gets a response; whenever the
\* handler has reached the wait on documentPromise the promise is resolved or
\* will be; and a failure of the condenser, the retriever or the answer step
\* has the JSON error as the response, with the promise left pending by a
\* failure before the end of the retrieval never being waited on.
C25_RetrievalAnswered ==
  /\ (endpoint = "retrieval" /\ pc = "parse") ~> (response.kind \in {"stream", "json_error"})
  /\ (endpoint = "retrieval" /\ pc = "package") ~> (documentPromise = "resolved")
  /\ []((endpoint = "retrieval" /\ thrown # NoError)
          => (response = CatchResponse(thrown) /\ pc = "done"))

\* a retrieval request whose condenser answered and whose retrieval failed:
\* the promise is still pending and the response is the JSON error
C25_Witness ==
  /\ endpoint = "retrieval"
  /\ Len(body.messages) = MaxTurns
  /\ standaloneQuestion # <<>>
  /\ thrown \in ProviderErrors
  /\ documentPromise = "pending"
  /\ response.kind = "json_error"


\* ------------------------------------------ C26: the loading flag is cleared
\* C26: after every accepted full-trace submission intermediateStepsLoading
\* eventually returns to false, whether the request succeeds, returns a
\* response that is not ok, or fails at the network or JSON-parsing level.
C26_LoadingFlagCleared ==
  intermediateStepsLoading ~> ~intermediateStepsLoading


\* ------------------------------------------- C27: what the agent is handed
\* C27: the list handed to the agent is the user and assistant messages of
\* the request, in their order and with their contents; a message of
\* another role, the intermediate steps the window shows as system messages
\* included, is no part of it nor of the list the model is called on.
C27_OnlyChatTurnsReachAgent ==
  (endpoint = "agents" /\ node # "none")
    => LET messages == body.messages
           Turns == {i \in 1..Len(messages) : messages[i].role \in {"user", "assistant"}}
           \* the place in the request of the k-th message handed over
           At(k) == CHOOSE i \in Turns : Cardinality({j \in Turns : j <= i}) = k
       IN /\ Len(agentInput) = Cardinality(Turns)
          /\ \A k \in 1..Len(agentInput) :
               /\ agentInput[k].content = messages[At(k)].content
               /\ agentInput[k].type
                    = (IF messages[At(k)].role = "user" THEN "human" ELSE "ai")
          /\ IsPrefix(agentInput, agentMessages)
          /\ \A k \in 1..Len(agentMessages) : agentMessages[k].type \in {"human", "ai", "tool"}

\* the request of a second submission holds the step message shown for the
\* first one, and the agent was started on the other messages
C27_Witness ==
  /\ endpoint = "agents"
  /\ node = "agent"
  /\ serving = MaxRuns
  /\ \E i \in 1..Len(body.messages) :
       /\ body.messages[i].role = "system"
       /\ body.messages[i] \in {runs[1].intermediateStepMessages[k] :
                                  k \in 1..Len(runs[1].intermediateStepMessages)}
  /\ \E i \in 1..Len(body.messages) : body.messages[i].role = "assistant"
  /\ Len(agentInput) >= 2
  /\ Len(agentInput) < Len(body.messages)


\* ------------------------------------------------ C28: the final message
C28_Step ==
  /\ (endpoint' = "agents" /\ response'.kind = "json")
       => LET last == response'.messages[Len(response'.messages)]
          IN last.role = "assistant" /\ last.tool_calls = <<>>
  /\ \A r \in RunIds :
       (runs[r].pc # "done" /\ runs'[r].pc = "done")
         => LET returned == runs'[r].responseMessages
                last == returned[Len(returned)]
                steps == runs'[r].intermediateStepMessages
                bubble == chatMessages'[Len(chatMessages')]
            IN /\ last.role = "assistant"
               /\ last.tool_calls = <<>>
               /\ bubble.role = "assistant"
               /\ bubble.content = last.content
               /\ Len(chatMessages') = Len(runs'[r].posted) + Len(steps) + 1
               /\ SubSeq(chatMessages', 1, Len(chatMessages') - 1)
                    = runs'[r].posted \o steps
               /\ \A k \in 1..Len(steps) : steps[k].role = "system"

\* C28: the last message a terminated full-trace run returns is an assistant
\* message without tool calls, and the message the window appends last for
\* that run is an assistant message with exactly that content, after the
\* messages the run posted (the user's message last) and every
\* intermediate-step message of the run.
C28_FinalMessageIsLastAnswer == [][C28_Step]_vars

\* a run with MaxIters intermediate steps has ended with a final text
C28_Witness ==
  /\ runs[1].pc = "done"
  /\ runs[2].pc = "idle"
  /\ Len(runs[1].intermediateStepMessages) = MaxIters
  /\ Len(chatMessages) = MaxIters + 2
  /\ chatMessages[Len(chatMessages)] = [role |-> "assistant", content |-> <<"a", "E">>]
  /\ chatMessages[Len(chatMessages) - 1].role = "system"


\* --------------------------------------------- C29: frame of the sources map
\* the keys a response can name: the message indices of the conversation
SourceKeys == {NumberToString(n) : n \in 0..(2 * MaxExchanges + 1)}

C29_Step ==
  \A key \in SourceKeys :
    LookupSources(sourcesForMessages', key) # LookupSources(sourcesForMessages, key)
      => /\ Len(delivered') = Len(delivered) + 1
         /\ LET d == delivered'[Len(delivered')]
            IN /\ d.index # <<>>
               /\ d.sources # <<>>
               /\ key = d.index
               /\ LookupSources(sourcesForMessages', key) = d.sources

\* C29: whatever happens in the window, the entry of the sources map under a
\* key changes only when a response arrives whose x-message-index is that
\* key and whose decoded x-sources list is not empty, and it becomes that
\* list; the entries under every other key stay as they were.
C29_OnlyIndexedEntryChanges == [][C29_Step]_vars

\* two responses stored their sources under different keys, and the entry of
\* the first is still there after the second
C29_Witness ==
  /\ Len(delivered) = MaxExchanges
  /\ delivered[1].index # delivered[MaxExchanges].index
  /\ delivered[1].sources # <<>>
  /\ delivered[MaxExchanges].sources # <<>>
  /\ delivered[1].sources # delivered[MaxExchanges].sources
  /\ LookupSources(sourcesForMessages, delivered[1].index) = delivered[1].sources
  /\ LookupSources(sourcesForMessages, delivered[MaxExchanges].index)
       = delivered[MaxExchanges].sources


\* --------------------------------------- C30: the streamed answer is closed
C30_Step ==
  endpoint = "agents"
    => /\ (streamState # "closed" /\ streamState' = "closed")
            => /\ streamState = "open"
               /\ providerDone
               /\ consumed = Len(events)
               /\ consumed' = consumed
               /\ respChunks' = respChunks
       /\ streamState = "closed"
            => /\ streamState' = "closed"
               /\ respChunks' = respChunks
               /\ consumed' = consumed
               /\ events' = events

\* C30: in the streaming mode of the agents route the response stream is
\* closed once, when the event stream has ended and its last event has been
\* processed; after the close no chunk is written and the stream stays
\* closed; and whenever the event stream has ended the response stream is
\* eventually closed.
C30_ClosedOnceAfterLastEvent ==
  /\ [][C30_Step]_vars
  /\ (endpoint = "agents" /\ pc = "streaming" /\ providerDone) ~> (streamState = "closed")

\* a streamed agent run with a tool round was closed after all its events,
\* some of them forwarded and some not
C30_Witness ==
  /\ endpoint = "agents"
  /\ streamState = "closed"
  /\ iters >= 1
  /\ consumed = Len(events)
  /\ Len(respChunks) >= 2
  /\ Len(respChunks) < Len(events)

====
